---------------------------- MODULE Spec2Model ----------------------------
(***************************************************************************)
(* A model of src/repository.cpp of svn2git: the fast-import emission      *)
(* engine (FastImportRepository and its Transaction), the process cache,   *)
(* the prefixing facade and the incremental-resume code.                   *)
(*                                                                         *)
(* Conventions.                                                            *)
(*  - Every operation of the source is an operator from a "world" (the     *)
(*    record of all program state) to the world after the call, so that a  *)
(*    handler that calls other handlers is their composition.  The         *)
(*    actions apply one operation to the current world.                    *)
(*  - The bytes written to an importer's stdin are kept as the sequence    *)
(*    of protocol lines (records built by the constructors below), one     *)
(*    record per protocol command, in the order of the write() calls.      *)
(*  - Byte strings the code inspects (paths, log messages) are sequences   *)
(*    of chunks in which "/" and "\n" always stand alone, so that          *)
(*    endsWith, chop and length are computed, not assumed.                 *)
(*  - Q_ASSERT and qFatal end the run: the world's fatal flag is set and   *)
(*    no operation is enabled afterwards.                                  *)
(***************************************************************************)
EXTENDS Integers, Sequences, FiniteSets, TLC

(***************************************************************************)
(* Bounds of the model.                                                    *)
(***************************************************************************)
\* Width of the mark space: the source uses 20 bits, (1 << 20) - 1.
MarkWidth == 5
\* Marks between the last commit mark of a resumed repository and maxMark.
Headroom == 4
\* Capacity of the process cache: the source keeps 100 importers running.
MaxProcesses == 2
\* Repositories.
NumRepos == 3
\* Transaction objects that can be alive at once.
MaxTxns == 2
\* newTransaction calls per repository.
MaxTransactions == 3
\* addFile calls on one transaction.
MaxFiles == 3
\* Entries in one branch's history, and the largest revision number.
MaxHistory == 3
MaxRev == 3
\* The commit-interval option (10000 by default, line 550).
CommitInterval == 2
\* Calls made in one run.
MaxCalls == 10

(***************************************************************************)
(* Program constants.                                                      *)
(***************************************************************************)
\* static const int maxSimultaneousProcesses = 100
maxSimultaneousProcesses == MaxProcesses

maxMark == 2^MarkWidth - 1

\* the parent limit of commit(): "if (++i > 16)"
maxParents == 16

Repos == 1..NumRepos
TxnIds == 1..MaxTxns
BranchNames == {"master", "b1", "b2"}

(***************************************************************************)
(* Byte strings as chunk sequences.                                        *)
(***************************************************************************)
RECURSIVE length(_)
length(bytes) ==
    IF bytes = <<>> THEN 0 ELSE Len(Head(bytes)) + length(Tail(bytes))

endsWith(bytes, c) == bytes # <<>> /\ bytes[Len(bytes)] = c

chop(bytes) == SubSeq(bytes, 1, Len(bytes) - 1)

RECURSIVE contains(_, _)
contains(seq, x) ==
    IF seq = <<>> THEN FALSE
    ELSE IF Head(seq) = x THEN TRUE ELSE contains(Tail(seq), x)

\* QByteArray::number(n, 8)
RECURSIVE octal(_)
octal(n) ==
    IF n < 8 THEN ToString(n) ELSE octal(n \div 8) \o ToString(n % 8)

\* branchRef: "if (!branchRef.startsWith("refs/")) prepend("refs/heads/")".
\* The names with a refs/ prefix the model uses are listed here.
startsWithRefs(name) == name \in {"refs/tags/t1", "refs/tags/t2"}

branchRefOf(name) ==
    IF startsWithRefs(name) THEN name ELSE "refs/heads/" \o name

(***************************************************************************)
(* Protocol lines.  All records have the same fields; a field a line does  *)
(* not have is "" / 0 / <<>>.                                              *)
(*   k     the command                                                     *)
(*   ref   a ref or branch or tag name                                     *)
(*   arg   a second string: reset target, author, comment, octal mode      *)
(*   rev   a revision number                                               *)
(*   mark  a mark                                                          *)
(*   num   a length or timestamp                                           *)
(*   text  a chunk sequence: path or message                               *)
(***************************************************************************)
Line(k, ref, arg, rev, mark, num, text) ==
    [k |-> k, ref |-> ref, arg |-> arg, rev |-> rev, mark |-> mark,
     num |-> num, text |-> text]

\* "blob\nmark :<mark>\ndata <length>\n"
BlobLine(mark, len) == Line("blob", "", "", 0, mark, len, <<>>)
\* "checkpoint\n"
CheckpointLine == Line("checkpoint", "", "", 0, 0, 0, <<>>)
\* "reset <ref>\nfrom <target>\n\n"
ResetLine(ref, target) == Line("reset", ref, target, 0, 0, 0, <<>>)
\* "progress SVN r<rev> branch <branch> = :<mark><comment>\n\n"; comment is
\* "" or " # ..." .
ProgressLine(rev, branch, mark, comment) ==
    Line("progress", branch, comment, rev, mark, 0, <<>>)
\* "progress Branch <ref> reloaded\n"
ReloadedLine(ref) == Line("reloaded", ref, "", 0, 0, 0, <<>>)
\* "commit <ref>\nmark :<mark>\ncommitter <author> <dt> -0000\ndata <len>\n"
\* followed by the message and "\n"
CommitLine(ref, mark, author, dt, message) ==
    Line("commit", ref, author, length(message), mark, dt, message)
\* "merge :<mark>\n"
MergeLine(mark) == Line("merge", "", "", 0, mark, 0, <<>>)
\* "deleteall\n" and "D <path>\n"
DeleteAllLine == Line("deleteall", "", "", 0, 0, 0, <<>>)
DLine(path) == Line("D", "", "", 0, 0, 0, path)
\* "M <mode-octal> :<mark> <path>\n"
MLine(mode, mark, path) == Line("M", "", octal(mode), 0, mark, 0, path)
\* "progress Creating annotated tag <name> from ref <ref>\ntag <name>\n
\*  from <ref>\ntagger <author> <dt> -0000\ndata <len>\n" message "\n"
TagLine(name, ref, author, dt, message) ==
    Line("tag", name, ref \o " " \o author, length(message), 0, dt, message)

(***************************************************************************)
(* The program state.                                                      *)
(***************************************************************************)
VARIABLES
    repos,          \* [Repos -> FastImportRepository fields and its files]
    processCache,   \* static ProcessCache processCache: a list of repos
    txns,           \* [TxnIds -> Transaction objects]
    fatal,          \* the run was aborted by Q_ASSERT or qFatal
    options,        \* CommandLineParser: dry-run, add-metadata
    result,         \* the last call: op, what it returned (ret), cutoff after
                    \* it and cutoff passed (arg) for setupIncremental, the
                    \* "too many merge parents" warnings of commit (warned)
    phase,          \* [Repos -> the caller's position in a repository's life]
    callsLeft       \* the calls the caller has yet to make

vars == <<repos, processCache, txns, fatal, options, result, phase, callsLeft>>

\* A file of the working directory: absent, or its lines.
NoFile == [exists |-> FALSE, lines |-> <<>>]
File(lines) == [exists |-> TRUE, lines |-> lines]

Branch0 == [created |-> 0, commits |-> <<>>, marks |-> <<>>]

TagNames == {"t1", "t2"}

NoTag == [present |-> FALSE, supportingRef |-> "", svnprefix |-> "",
          author |-> "", log |-> <<>>, dt |-> 0, revnum |-> 0]

\* FastImportRepository::FastImportRepository
NewRepository ==
    [branches |-> [b \in BranchNames |->
                      IF b = "master"
                      THEN [Branch0 EXCEPT !.created = 1] ELSE Branch0],
     annotatedTags |-> [n \in TagNames |-> NoTag],
     commitCount |-> 0,
     outstandingTransactions |-> 0,
     last_commit_mark |-> 0,
     next_file_mark |-> maxMark,
     processHasStarted |-> FALSE,
     running |-> FALSE,
     out |-> <<>>,
     dropped |-> 0,
     logfile |-> NoFile,
     bkup |-> NoFile,
     marksfile |-> NoFile]

NoTxn ==
    [status |-> "none", repository |-> 0, branch |-> "", svnprefix |-> "",
     author |-> "", log |-> <<>>, datetime |-> 0, revnum |-> 0,
     merges |-> <<>>, deletedFiles |-> <<>>, modifiedFiles |-> <<>>]

NoResult == [op |-> "", ret |-> 0, cutoff |-> 0, arg |-> 0, warned |-> 0]

\* The world of the current state.  oracle is the outcome the build gives to
\* a read of the last element of an empty QVector (see resetBranch).
World == [repos |-> repos, processCache |-> processCache, txns |-> txns,
          fatal |-> fatal, options |-> options, result |-> result,
          oracle |-> "abort"]

Becomes(w) ==
    /\ callsLeft > 0
    /\ callsLeft' = callsLeft - 1
    /\ repos' = w.repos
    /\ processCache' = w.processCache
    /\ txns' = w.txns
    /\ fatal' = w.fatal
    /\ options' = w.options
    /\ result' = w.result

\* fastImport.write(...) of repository r: QProcess::write fails on a process
\* that is not running and the bytes are lost (dropped counts the lines).
write(w, r, lines) ==
    IF w.repos[r].running
    THEN [w EXCEPT !.repos[r].out = @ \o lines]
    ELSE [w EXCEPT !.repos[r].dropped = @ + Len(lines)]

Returns(w, op, ret, cutoff) ==
    [w EXCEPT !.result = [op |-> op, ret |-> ret, cutoff |-> cutoff,
                          arg |-> 0, warned |-> 0]]

\* Q_ASSERT failed or qFatal was called in op; ret is the value at hand
Abort(w, op, ret) == [Returns(w, op, ret, 0) EXCEPT !.fatal = TRUE]


Last(seq) == seq[Len(seq)]

RECURSIVE removeOne(_, _)
\* QLinkedList::removeOne: the first occurrence
removeOne(list, x) ==
    IF list = <<>> THEN <<>>
    ELSE IF Head(list) = x THEN Tail(list)
    ELSE <<Head(list)>> \o removeOne(Tail(list), x)

(***************************************************************************)
(* The fast-import driver and the process cache.                           *)
(***************************************************************************)
\* The order in which foreach (branches.keys()) visits the branches: the
\* hash order of QHash, fixed for a given set of keys.
branchKeys == <<"master", "b1", "b2">>

RECURSIVE reloadLines(_, _)
reloadLines(branches, keys) ==
    IF keys = <<>> THEN <<>>
    ELSE LET br == branches[Head(keys)]
             ref == branchRefOf(Head(keys))
         IN (IF Len(br.marks) = 0 \/ Last(br.marks) = 0
             THEN <<>>
             ELSE <<ResetLine(ref, ":" \o ToString(Last(br.marks))),
                    ReloadedLine(ref)>>)
            \o reloadLines(branches, Tail(keys))

reloadBranches(w, r) ==
    write(w, r, reloadLines(w.repos[r].branches, branchKeys))

\* startFastImport without the test of processHasStarted
startFastImport_unlatched(w, r) ==
    IF w.repos[r].running THEN w
    ELSE reloadBranches(
             [w EXCEPT !.repos[r].processHasStarted = TRUE,
                       !.repos[r].running = TRUE], r)

\* FastImportRepository::startFastImport
startFastImport(w, r) ==
    IF w.repos[r].running THEN w
    ELSE IF w.repos[r].processHasStarted
    THEN Abort(w, "startFastImport", 0) \* qFatal("... started once and crashed?")
    ELSE reloadBranches(
             [w EXCEPT !.repos[r].processHasStarted = TRUE,
                       !.repos[r].running = TRUE], r)

\* ProcessCache::remove
cacheRemove(w, r) == [w EXCEPT !.processCache = removeOne(@, r)]

closeFastImport(w, r) ==
    LET w1 == IF w.repos[r].running
              THEN [write(w, r, <<CheckpointLine>>)
                       EXCEPT !.repos[r].running = FALSE]
              ELSE w
    IN cacheRemove([w1 EXCEPT !.repos[r].processHasStarted = FALSE], r)

RECURSIVE evict(_)
\* while (size() >= maxSimultaneousProcesses) takeFirst()->closeFastImport();
evict(w) ==
    IF Len(w.processCache) >= maxSimultaneousProcesses
    THEN evict(closeFastImport([w EXCEPT !.processCache = Tail(@)],
                               Head(w.processCache)))
    ELSE w

\* ProcessCache::touch
touch(w, r) ==
    LET w1 == evict(cacheRemove(w, r))
    IN [w1 EXCEPT !.processCache = Append(@, r)]

(***************************************************************************)
(* The branch registry.                                                    *)
(***************************************************************************)
EXIT_SUCCESS == 0
EXIT_FAILURE == 1

RECURSIVE qUpperBound(_, _, _, _)
\* qUpperBound of <QtAlgorithms>: the binary search as Qt runs it, on the
\* vector as it is (sorted or not).  begin is 0-based; the result is the
\* 0-based position of the iterator returned.
qUpperBound(commits, value, begin, n) ==
    IF n <= 0 THEN begin
    ELSE LET half == n \div 2
             middle == begin + half
         IN IF value < commits[middle + 1]
            THEN qUpperBound(commits, value, begin, half)
            ELSE qUpperBound(commits, value, middle + 1, n - (half + 1))

\* markFrom searching for the entries below branchRevNum, as qLowerBound does
markFrom_strict(branches, branchFrom, branchRevNum) ==
    LET brFrom == branches[branchFrom]
        it == qUpperBound(brFrom.commits, branchRevNum - 1, 0,
                          Len(brFrom.commits))
    IN IF brFrom.created = 0 THEN -1
       ELSE IF brFrom.commits = <<>> THEN -1
       ELSE IF it = 0 THEN 0
       ELSE brFrom.marks[it]

\* FastImportRepository::markFrom: the mark returned
markFrom(branches, branchFrom, branchRevNum) ==
    LET brFrom == branches[branchFrom]
        it == qUpperBound(brFrom.commits, branchRevNum, 0, Len(brFrom.commits))
    IN IF brFrom.created = 0 THEN -1
       ELSE IF brFrom.commits = <<>> THEN -1
       ELSE IF branchRevNum = Last(brFrom.commits) THEN Last(brFrom.marks)
       ELSE IF it = 0 THEN 0
       ELSE brFrom.marks[it]

\* markFrom adding " at r<n>" to branchFromDesc also when the revision is
\* the last one of the branch
markFromDesc_always(branches, branchFrom, branchRevNum, branchFromDesc) ==
    LET brFrom == branches[branchFrom]
        it == qUpperBound(brFrom.commits, branchRevNum, 0, Len(brFrom.commits))
        closestCommit == brFrom.commits[it]
    IN IF \/ brFrom.created = 0
          \/ brFrom.commits = <<>>
          \/ it = 0
          \/ branchFromDesc = ""
       THEN branchFromDesc
       ELSE branchFromDesc \o " at r" \o ToString(branchRevNum)
            \o (IF closestCommit # branchRevNum
                THEN " => r" \o ToString(closestCommit) ELSE "")

\* FastImportRepository::markFrom: branchFromDesc after the call
markFromDesc(branches, branchFrom, branchRevNum, branchFromDesc) ==
    LET brFrom == branches[branchFrom]
        it == qUpperBound(brFrom.commits, branchRevNum, 0, Len(brFrom.commits))
        closestCommit == brFrom.commits[it]
    IN IF \/ brFrom.created = 0
          \/ brFrom.commits = <<>>
          \/ branchRevNum = Last(brFrom.commits)
          \/ it = 0
          \/ branchFromDesc = ""
       THEN branchFromDesc
       ELSE branchFromDesc \o " at r" \o ToString(branchRevNum)
            \o (IF closestCommit # branchRevNum
                THEN " => r" \o ToString(closestCommit) ELSE "")

\* branchRef.mid(4): the branch ref without its leading "refs"
mid4(branch) ==
    CASE branch = "refs/tags/t1" -> "/tags/t1"
      [] branch = "refs/tags/t2" -> "/tags/t2"
      [] OTHER -> "/heads/" \o branch

\* The outcomes of br.marks.last() in resetBranch.  On an empty vector the
\* read is undefined: QVector::last() asserts in a debug build, and a release
\* build reads whatever precedes the array, zero or not.
lastIsReal(w, br) ==
    IF br.marks # <<>> THEN Last(br.marks) # 0 ELSE w.oracle = "nonzero"

lastAborts(w, br) == br.marks = <<>> /\ w.oracle = "abort"

\* resetBranch keeping the history sorted: a revision below the last one is
\* entered as the last one
resetBranch_clamped(w, r, branch, revnum, mark, resetTo, comment) ==
    LET branchRef == branchRefOf(branch)
        br == w.repos[r].branches[branch]
        reads == br.created # 0 /\ br.created # revnum
        backupBranch == "refs/backups/r" \o ToString(revnum) \o mid4(branch)
        w1 == IF reads /\ lastIsReal(w, br)
              THEN write(w, r, <<ResetLine(backupBranch, branchRef)>>)
              ELSE w
        entered == IF br.commits # <<>> /\ revnum < Last(br.commits)
                   THEN Last(br.commits) ELSE revnum
        w2 == [w1 EXCEPT !.repos[r].branches[branch] =
                  [created |-> revnum,
                   commits |-> Append(br.commits, entered),
                   marks |-> Append(br.marks, mark)]]
        w3 == write(w2, r, <<ResetLine(branchRef, resetTo),
                             ProgressLine(revnum, branch, mark,
                                          " # " \o comment)>>)
    IN IF reads /\ lastAborts(w, br)
       THEN Abort(w, "resetBranch", 0)
       ELSE Returns(w3, "resetBranch", EXIT_SUCCESS, 0)

\* resetBranch backing up a branch that has any non-zero mark in its history
resetBranch_anyReal(w, r, branch, revnum, mark, resetTo, comment) ==
    LET branchRef == branchRefOf(branch)
        br == w.repos[r].branches[branch]
        reads == br.created # 0 /\ br.created # revnum
        backupBranch == "refs/backups/r" \o ToString(revnum) \o mid4(branch)
        w1 == IF reads /\ \E i \in 1..Len(br.marks) : br.marks[i] # 0
              THEN write(w, r, <<ResetLine(backupBranch, branchRef)>>)
              ELSE w
        w2 == [w1 EXCEPT !.repos[r].branches[branch] =
                  [created |-> revnum,
                   commits |-> Append(br.commits, revnum),
                   marks |-> Append(br.marks, mark)]]
        w3 == write(w2, r, <<ResetLine(branchRef, resetTo),
                             ProgressLine(revnum, branch, mark,
                                          " # " \o comment)>>)
    IN Returns(w3, "resetBranch", EXIT_SUCCESS, 0)

\* FastImportRepository::resetBranch
resetBranch(w, r, branch, revnum, mark, resetTo, comment) ==
    LET branchRef == branchRefOf(branch)
        br == w.repos[r].branches[branch]
        reads == br.created # 0 /\ br.created # revnum
        backupBranch == "refs/backups/r" \o ToString(revnum) \o mid4(branch)
        w1 == IF reads /\ lastIsReal(w, br)
              THEN write(w, r, <<ResetLine(backupBranch, branchRef)>>)
              ELSE w
        w2 == [w1 EXCEPT !.repos[r].branches[branch] =
                  [created |-> revnum,
                   commits |-> Append(br.commits, revnum),
                   marks |-> Append(br.marks, mark)]]
        w3 == write(w2, r, <<ResetLine(branchRef, resetTo),
                             ProgressLine(revnum, branch, mark,
                                          " # " \o comment)>>)
    IN IF reads /\ lastAborts(w, br)
       THEN Abort(w, "resetBranch", 0)
       ELSE Returns(w3, "resetBranch", EXIT_SUCCESS, 0)

\* createBranch going on after markFrom has returned -1, as for an ancestor
\* without exported commits
createBranch_continue(w, r, branch, revnum, branchFrom, branchRevNum) ==
    LET w1 == startFastImport(w, r)
        desc0 == "from branch " \o branchFrom
        branches == w1.repos[r].branches
        found == markFrom(branches, branchFrom, branchRevNum)
        mark == IF found = -1 THEN 0 ELSE found
        desc1 == markFromDesc(branches, branchFrom, branchRevNum, desc0)
        branchFromRef == IF mark = 0 THEN branchRefOf(branchFrom)
                         ELSE ":" \o ToString(mark)
        branchFromDesc == IF mark = 0 THEN desc1 \o ", deleted/unknown"
                          ELSE desc1
        w2 == resetBranch(w1, r, branch, revnum, mark, branchFromRef,
                          branchFromDesc)
    IN IF w1.fatal THEN w1
       ELSE IF w2.fatal THEN w2
       ELSE Returns(w2, "createBranch", w2.result.ret, 0)

\* FastImportRepository::createBranch
createBranch(w, r, branch, revnum, branchFrom, branchRevNum) ==
    LET w1 == startFastImport(w, r)
        desc0 == "from branch " \o branchFrom
        branches == w1.repos[r].branches
        mark == markFrom(branches, branchFrom, branchRevNum)
        desc1 == markFromDesc(branches, branchFrom, branchRevNum, desc0)
        branchFromRef == IF mark = 0 THEN branchRefOf(branchFrom)
                         ELSE ":" \o ToString(mark)
        branchFromDesc == IF mark = 0 THEN desc1 \o ", deleted/unknown"
                          ELSE desc1
        w2 == resetBranch(w1, r, branch, revnum, mark, branchFromRef,
                          branchFromDesc)
    IN IF w1.fatal THEN w1
       ELSE IF mark = -1
       THEN Returns(w1, "createBranch", EXIT_FAILURE, 0)
       ELSE IF w2.fatal THEN w2
       ELSE Returns(w2, "createBranch", w2.result.ret, 0)

null_sha == "0000000000000000000000000000000000000000"

\* deleteBranch marking the branch as not created
deleteBranch_uncreate(w, r, branch, revnum) ==
    LET w1 == startFastImport(w, r)
        w2 == resetBranch(w1, r, branch, revnum, 0, null_sha, "delete")
    IN IF w1.fatal THEN w1
       ELSE IF w2.fatal THEN w2
       ELSE Returns([w2 EXCEPT !.repos[r].branches[branch].created = 0],
                    "deleteBranch", w2.result.ret, 0)

\* FastImportRepository::deleteBranch
deleteBranch(w, r, branch, revnum) ==
    LET w1 == startFastImport(w, r)
        w2 == resetBranch(w1, r, branch, revnum, 0, null_sha, "delete")
    IN IF w1.fatal THEN w1
       ELSE IF w2.fatal THEN w2
       ELSE Returns(w2, "deleteBranch", w2.result.ret, 0)

(***************************************************************************)
(* Transactions.                                                           *)
(***************************************************************************)
\* FastImportRepository::newTransaction; t is the object "new" returns
newTransaction(w, r, t, branch, svnprefix, revnum) ==
    LET w1 == startFastImport(w, r)
        txn == [NoTxn EXCEPT !.status = "open", !.repository = r,
                             !.branch = branch, !.svnprefix = svnprefix,
                             !.datetime = 0, !.revnum = revnum]
        w2 == [w1 EXCEPT !.txns[t] = txn, !.repos[r].commitCount = @ + 1]
        w3 == IF w2.repos[r].commitCount % CommitInterval = 0
              THEN write(w2, r, <<CheckpointLine>>)
              ELSE w2
    IN IF w1.fatal THEN w1
       ELSE Returns([w3 EXCEPT !.repos[r].outstandingTransactions = @ + 1],
                    "newTransaction", t, 0)

\* forgetTransaction resetting next_file_mark whenever a transaction goes
forgetTransaction_always(w, r) ==
    [w EXCEPT !.repos[r].outstandingTransactions = @ - 1,
              !.repos[r].next_file_mark = maxMark]

\* FastImportRepository::forgetTransaction
forgetTransaction(w, r) ==
    LET w1 == [w EXCEPT !.repos[r].outstandingTransactions = @ - 1]
    IN IF w1.repos[r].outstandingTransactions = 0
       THEN [w1 EXCEPT !.repos[r].next_file_mark = maxMark]
       ELSE w1

\* FastImportRepository::Transaction::~Transaction
deleteTransaction(w, t) ==
    Returns([forgetTransaction(w, w.txns[t].repository)
                EXCEPT !.txns[t] = NoTxn],
            "deleteTransaction", t, 0)

setAuthor(w, t, a) ==
    Returns([w EXCEPT !.txns[t].author = a], "setAuthor", 0, 0)
setDateTime(w, t, dt) ==
    Returns([w EXCEPT !.txns[t].datetime = dt], "setDateTime", 0, 0)
setLog(w, t, l) ==
    Returns([w EXCEPT !.txns[t].log = l], "setLog", 0, 0)

\* noteCopyFromBranch without the test "branch == branchFrom"
noteCopyFromBranch_self(w, t, branchFrom, branchRevNum) ==
    LET txn == w.txns[t]
        mark == markFrom(w.repos[txn.repository].branches, branchFrom,
                         branchRevNum)
        w0 == Returns(w, "noteCopyFromBranch", 0, 0)
    IN IF mark = -1 \/ mark = 0 THEN w0
       ELSE IF ~contains(txn.merges, mark)
       THEN [w0 EXCEPT !.txns[t].merges = Append(@, mark)]
       ELSE w0

\* FastImportRepository::Transaction::noteCopyFromBranch
noteCopyFromBranch(w, t, branchFrom, branchRevNum) ==
    LET txn == w.txns[t]
        mark == markFrom(w.repos[txn.repository].branches, branchFrom,
                         branchRevNum)
        w0 == Returns(w, "noteCopyFromBranch", 0, 0)
    IN IF txn.branch = branchFrom THEN w0
       ELSE IF mark = -1 \/ mark = 0 THEN w0
       ELSE IF ~contains(txn.merges, mark)
       THEN [w0 EXCEPT !.txns[t].merges = Append(@, mark)]
       ELSE w0

\* FastImportRepository::Transaction::deleteFile
deleteFile(w, t, path) ==
    LET pathNoSlash == IF endsWith(path, "/") THEN chop(path) ELSE path
    IN Returns([w EXCEPT !.txns[t].deletedFiles = Append(@, pathNoSlash)],
               "deleteFile", 0, 0)

\* addFile asserting mark > last_commit_mark only
addFile_weak(w, t, path, mode, len) ==
    LET r == w.txns[t].repository
        mark == w.repos[r].next_file_mark
        w1 == [w EXCEPT !.repos[r].next_file_mark = @ - 1]
        w2 == [w1 EXCEPT !.txns[t].modifiedFiles =
                             Append(@, MLine(mode, mark, path))]
        w3 == IF ~w.options.dryRun
              THEN write(w2, r, <<BlobLine(mark, len)>>)
              ELSE w2
    IN IF ~(mark > w1.repos[r].last_commit_mark)
       THEN Abort(w1, "addFile", mark)
       ELSE Returns(w3, "addFile", mark, 0)

\* FastImportRepository::Transaction::addFile
addFile(w, t, path, mode, len) ==
    LET r == w.txns[t].repository
        mark == w.repos[r].next_file_mark
        w1 == [w EXCEPT !.repos[r].next_file_mark = @ - 1]
        w2 == [w1 EXCEPT !.txns[t].modifiedFiles =
                             Append(@, MLine(mode, mark, path))]
        w3 == IF ~w.options.dryRun
              THEN write(w2, r, <<BlobLine(mark, len)>>)
              ELSE w2
    IN IF ~(mark > w1.repos[r].last_commit_mark + 1)
       THEN Abort(w1, "addFile", mark) \* Q_ASSERT(mark > last_commit_mark + 1)
       ELSE Returns(w3, "addFile", mark, 0)

\* the commit message of commit() and the tag message of finalizeTags()
messageOf(w, log, svnprefix, revnum) ==
    LET m1 == IF endsWith(log, "\n") THEN log ELSE Append(log, "\n")
    IN IF w.options.addMetadata
       THEN m1 \o <<"\n", "svn path=" \o svnprefix \o "; revision="
                          \o ToString(revnum), "\n">>
       ELSE m1

RECURSIVE mergeMarks_late(_, _, _)
\* the loop of commit() testing i against the limit before it counts the merge
mergeMarks_late(merges, parentmark, i) ==
    IF merges = <<>> THEN <<>>
    ELSE IF Head(merges) = parentmark
    THEN mergeMarks_late(Tail(merges), parentmark, i)
    ELSE IF i > maxParents THEN <<>>
    ELSE <<Head(merges)>> \o mergeMarks_late(Tail(merges), parentmark, i + 1)

RECURSIVE mergeMarks(_, _, _)
\* the loop "foreach (int merge, merges)" of commit(): the marks it emits
mergeMarks(merges, parentmark, i) ==
    IF merges = <<>> THEN <<>>
    ELSE IF Head(merges) = parentmark
    THEN mergeMarks(Tail(merges), parentmark, i)
    ELSE IF i + 1 > maxParents THEN <<>>
    ELSE <<Head(merges)>> \o mergeMarks(Tail(merges), parentmark, i + 1)

RECURSIVE tooManyParents(_, _, _)
\* the same loop: how often it warns "too many merge parents"
tooManyParents(merges, parentmark, i) ==
    IF merges = <<>> THEN 0
    ELSE IF Head(merges) = parentmark
    THEN tooManyParents(Tail(merges), parentmark, i)
    ELSE IF i + 1 > maxParents THEN 1
    ELSE tooManyParents(Tail(merges), parentmark, i + 1)

RECURSIVE mergeDesc(_)
mergeDesc(marks) ==
    IF marks = <<>> THEN ""
    ELSE " :" \o ToString(Head(marks)) \o mergeDesc(Tail(marks))

\* the deletion lines of commit()
deletionLines(deletedFiles) ==
    IF contains(deletedFiles, <<>>)
    THEN <<DeleteAllLine>>
    ELSE [i \in 1..Len(deletedFiles) |-> DLine(deletedFiles[i])]

\* what commit() writes, with the modifications ahead of the deletions
commitLines_modsFirst(header, emitted, deletedFiles, modifiedFiles, progress) ==
    <<header>>
    \o [i \in 1..Len(emitted) |-> MergeLine(emitted[i])]
    \o modifiedFiles
    \o deletionLines(deletedFiles)
    \o <<progress>>

\* what commit() writes: the header and message, the merges, the deletions,
\* the modifications, the progress line
commitLines(header, emitted, deletedFiles, modifiedFiles, progress) ==
    <<header>>
    \o [i \in 1..Len(emitted) |-> MergeLine(emitted[i])]
    \o deletionLines(deletedFiles)
    \o modifiedFiles
    \o <<progress>>

\* commit() from its assertion on: the branch entry and the lines written
committed(w, t, w2, mark) ==
    LET txn == w.txns[t]
        r == txn.repository
        message == messageOf(w, txn.log, txn.svnprefix, txn.revnum)
        br == w2.repos[r].branches[txn.branch]
        exists == br.created # 0 /\ br.marks # <<>>
        parentmark == IF exists THEN Last(br.marks) ELSE 0
        w3 == [w2 EXCEPT !.repos[r].branches[txn.branch] =
                  [created |-> IF exists THEN br.created ELSE txn.revnum,
                   commits |-> Append(br.commits, txn.revnum),
                   marks |-> Append(br.marks, mark)]]
        i == IF parentmark # 0 THEN 1 ELSE 0
        emitted == mergeMarks(txn.merges, parentmark, i)
        desc == mergeDesc(emitted)
        w4 == write(w3, r,
                commitLines(
                    CommitLine(branchRefOf(txn.branch), mark, txn.author,
                               txn.datetime, message),
                    emitted, txn.deletedFiles, txn.modifiedFiles,
                    ProgressLine(txn.revnum, txn.branch, mark,
                        IF desc = "" THEN "" ELSE " # merge from" \o desc)))
        w5 == Returns([w4 EXCEPT !.txns[t].status = "committed"],
                      "commit", mark, 0)
    IN [w5 EXCEPT !.result.warned = tooManyParents(txn.merges, parentmark, i)]

\* commit() without its assertion on the mark
commit_unchecked(w, t) ==
    LET r == w.txns[t].repository
        w1 == touch(w, r)
        mark == w1.repos[r].last_commit_mark + 1
        w2 == [w1 EXCEPT !.repos[r].last_commit_mark = mark]
    IN committed(w, t, w2, mark)

\* FastImportRepository::Transaction::commit
commit(w, t) ==
    LET r == w.txns[t].repository
        w1 == touch(w, r)
        mark == w1.repos[r].last_commit_mark + 1
        w2 == [w1 EXCEPT !.repos[r].last_commit_mark = mark]
    IN IF ~(mark < w2.repos[r].next_file_mark - 1)
       THEN Abort(w2, "commit", mark)  \* Q_ASSERT(mark < next_file_mark - 1)
       ELSE committed(w, t, w2, mark)

(***************************************************************************)
(* The marks file and the incremental resume.                              *)
(***************************************************************************)
Digits == {"0", "1", "2", "3", "4", "5", "6", "7", "8", "9"}

digitValue(c) ==
    CASE c = "0" -> 0 [] c = "1" -> 1 [] c = "2" -> 2 [] c = "3" -> 3
      [] c = "4" -> 4 [] c = "5" -> 5 [] c = "6" -> 6 [] c = "7" -> 7
      [] c = "8" -> 8 [] c = "9" -> 9

RECURSIVE toIntAcc(_, _)
toIntAcc(chars, acc) ==
    IF chars = <<>> THEN acc
    ELSE IF Head(chars) \notin Digits THEN 0
    ELSE toIntAcc(Tail(chars), acc * 10 + digitValue(Head(chars)))

\* QString::toInt: 0 when the text is not a number
toInt(chars) == IF chars = <<>> THEN 0 ELSE toIntAcc(chars, 0)

RECURSIVE indexOfFrom(_, _, _)
indexOfFrom(chars, c, i) ==
    IF i > Len(chars) THEN -1
    ELSE IF chars[i] = c THEN i - 1
    ELSE indexOfFrom(chars, c, i + 1)

\* QString::indexOf, 0-based, -1 when absent
indexOf(chars, c) == indexOfFrom(chars, c, 1)

\* the mark lastValidMark reads from one line of the marks file
markOfLine(line) ==
    LET sp == indexOf(line, " ")
    IN IF line[1] = ":" /\ sp # -1
       THEN toInt(SubSeq(line, 2, sp))      \* line.mid(1, sp - 1)
       ELSE 0

\* scanLine leaving the loop by "break" on a mark below the previous one
scanLine_unsorted(s, line) ==
    LET prev_mark == s.prev_mark
        mark == markOfLine(line)
    IN IF line = <<>> THEN s
       ELSE IF mark = 0
       THEN [prev_mark |-> 0, stopped |-> TRUE]
       ELSE IF mark = prev_mark
       THEN [prev_mark |-> 0, stopped |-> TRUE]
       ELSE IF mark < prev_mark \/ mark > prev_mark + 1
       THEN [prev_mark |-> prev_mark, stopped |-> TRUE]
       ELSE [prev_mark |-> mark, stopped |-> FALSE]

\* One pass of the loop of lastValidMark over a line; s.stopped once the loop
\* is left by "return 0" or by "break", s.prev_mark being what is returned.
scanLine(s, line) ==
    LET prev_mark == s.prev_mark
        mark == markOfLine(line)
    IN IF line = <<>> THEN s                    \* if (line.isEmpty()) continue
       ELSE IF mark = 0                         \* marks file corrupt?
       THEN [prev_mark |-> 0, stopped |-> TRUE]
       ELSE IF mark = prev_mark                 \* marks file has duplicates
       THEN [prev_mark |-> 0, stopped |-> TRUE]
       ELSE IF mark < prev_mark                 \* marks file not sorted
       THEN [prev_mark |-> 0, stopped |-> TRUE]
       ELSE IF mark > prev_mark + 1             \* break
       THEN [prev_mark |-> prev_mark, stopped |-> TRUE]
       ELSE [prev_mark |-> mark, stopped |-> FALSE]

RECURSIVE scanMarks(_, _, _, _)
\* The loop of lastValidMark over the lines lo..hi in their order, the range
\* taken in halves.
scanMarks(s, lines, lo, hi) ==
    IF s.stopped \/ lo > hi THEN s
    ELSE IF lo = hi THEN scanLine(s, lines[lo])
    ELSE LET mid == (lo + hi) \div 2
         IN scanMarks(scanMarks(s, lines, lo, mid), lines, mid + 1, hi)

\* static int lastValidMark(QString name)
lastValidMark(marksfile) ==
    IF ~marksfile.exists THEN 0
    ELSE scanMarks([prev_mark |-> 0, stopped |-> FALSE],
                   marksfile.lines, 1, Len(marksfile.lines)).prev_mark

\* the regular expression matching a line only if it carries no comment
progressMatch_bare(line) == line.k = "progress" /\ line.arg = ""

\* A line of the log after "#..." is cut and the rest trimmed matches
\* "progress SVN r(\d+) branch (.*) = :(\d+)" exactly when it is a
\* "progress SVN" line: its comment, if any, starts with " # ".
progressMatch(line) == line.k = "progress"

\* "if (last_commit_mark < mark) last_commit_mark = mark;" taking the mark as
\* it comes
raiseTo_assign(last_commit_mark, mark) == mark

\* "if (last_commit_mark < mark) last_commit_mark = mark;"
raiseTo(last_commit_mark, mark) ==
    IF last_commit_mark < mark THEN mark ELSE last_commit_mark

\* the entry with "br.marks.append(mark)" left out
replayEntry_revOnly(br, revnum, mark) ==
    [created |-> IF br.created = 0 \/ mark = 0 \/ br.marks = <<>>
                 THEN revnum ELSE br.created,
     commits |-> Append(br.commits, revnum),
     marks |-> br.marks]

\* the entry setupIncremental adds to a branch for one line of the log
replayEntry(br, revnum, mark) ==
    [created |-> IF br.created = 0 \/ mark = 0 \/ br.marks = <<>>
                 THEN revnum ELSE br.created,
     commits |-> Append(br.commits, revnum),
     marks |-> Append(br.marks, mark)]

\* beyond_cutoff cutting the log after the line it stopped at
beyond_cutoff_after(w, r, i, cutoff) ==
    LET logfile == w.repos[r].logfile
    IN Returns([w EXCEPT !.repos[r].bkup = logfile,
                         !.repos[r].logfile = File(SubSeq(logfile.lines, 1, i))],
               "setupIncremental", cutoff, cutoff)

\* The label beyond_cutoff of setupIncremental, reached at line i of the
\* log: the backup replaces any older one, and the log is cut to pos, the
\* i - 1 lines before the line.
beyond_cutoff(w, r, i, cutoff) ==
    LET logfile == w.repos[r].logfile
    IN Returns([w EXCEPT !.repos[r].bkup = logfile,
                         !.repos[r].logfile =
                             File(SubSeq(logfile.lines, 1, i - 1))],
               "setupIncremental", cutoff, cutoff)

\* One pass of the loop of setupIncremental, over line i of the log.  s.w is
\* the repository so far and s.last_revnum the revision of the last line
\* replayed; s.stopped once the loop is left by "goto beyond_cutoff", at line
\* s.at with s.cutoff the cutoff it leaves with.
replayLine(s, r, i, cutoff, last_valid_mark) ==
    LET line == s.w.repos[r].logfile.lines[i]
        revnum == line.rev
        branch == line.ref
        mark == line.mark
        w1 == [s.w EXCEPT
                 !.repos[r].last_commit_mark = raiseTo(@, mark),
                 !.repos[r].branches[branch] = replayEntry(@, revnum, mark)]
    IN IF ~progressMatch(line) THEN s
       ELSE IF revnum >= cutoff
       THEN [s EXCEPT !.stopped = TRUE, !.at = i, !.cutoff = cutoff]
       ELSE IF mark > last_valid_mark
       THEN [s EXCEPT !.stopped = TRUE, !.at = i, !.cutoff = revnum]
       ELSE [s EXCEPT !.w = w1, !.last_revnum = revnum]

RECURSIVE replay(_, _, _, _, _, _)
\* The loop of setupIncremental over the lines lo..hi of the log in their
\* order, the range taken in halves.
replay(s, r, lo, hi, cutoff, last_valid_mark) ==
    IF s.stopped \/ lo > hi THEN s
    ELSE IF lo = hi THEN replayLine(s, r, lo, cutoff, last_valid_mark)
    ELSE LET mid == (lo + hi) \div 2
         IN replay(replay(s, r, lo, mid, cutoff, last_valid_mark),
                   r, mid + 1, hi, cutoff, last_valid_mark)

\* FastImportRepository::setupIncremental; result.arg keeps the cutoff passed
setupIncremental(w, r, cutoff) ==
    LET logfile == w.repos[r].logfile
        s == replay([w |-> w, last_revnum |-> 0, stopped |-> FALSE,
                     at |-> 0, cutoff |-> cutoff],
                    r, 1, Len(logfile.lines), cutoff,
                    lastValidMark(w.repos[r].marksfile))
        retval == s.last_revnum + 1
        w1 == IF ~logfile.exists
              THEN Returns(w, "setupIncremental", 1, cutoff)
              ELSE IF s.stopped
              THEN beyond_cutoff(s.w, r, s.at, s.cutoff)
              ELSE Returns(IF retval = cutoff
                           THEN [s.w EXCEPT !.repos[r].bkup = NoFile]
                           ELSE s.w,
                           "setupIncremental", retval, cutoff)
    IN [w1 EXCEPT !.result.arg = cutoff]

\* FastImportRepository::restoreLog
restoreLog(w, r) ==
    IF ~w.repos[r].bkup.exists
    THEN Returns(w, "restoreLog", 0, 0)
    ELSE Returns([w EXCEPT !.repos[r].logfile = w.repos[r].bkup,
                           !.repos[r].bkup = NoFile],
                 "restoreLog", 0, 0)

(***************************************************************************)
(* Annotated tags.                                                         *)
(***************************************************************************)
\* tagName of createAnnotatedTag: ref without a leading "refs/tags/"
tagNameOf(ref) ==
    CASE ref = "refs/tags/t1" -> "t1"
      [] ref = "refs/tags/t2" -> "t2"
      [] OTHER -> ref

\* FastImportRepository::createAnnotatedTag
createAnnotatedTag(w, r, ref, svnprefix, revnum, author, dt, log) ==
    Returns([w EXCEPT !.repos[r].annotatedTags[tagNameOf(ref)] =
                [present |-> TRUE, supportingRef |-> ref,
                 svnprefix |-> svnprefix, author |-> author, log |-> log,
                 dt |-> dt, revnum |-> revnum]],
            "createAnnotatedTag", 0, 0)

\* the order in which finalizeTags iterates over annotatedTags
tagKeys == <<"t1", "t2">>

RECURSIVE tagLines(_, _, _)
tagLines(w, tags, keys) ==
    IF keys = <<>> THEN <<>>
    ELSE LET tag == tags[Head(keys)]
         IN (IF tag.present
             THEN <<TagLine(Head(keys), branchRefOf(tag.supportingRef),
                            tag.author, tag.dt,
                            messageOf(w, tag.log, tag.svnprefix, tag.revnum))>>
             ELSE <<>>)
            \o tagLines(w, tags, Tail(keys))

\* FastImportRepository::finalizeTags
finalizeTags(w, r) ==
    LET w1 == startFastImport(w, r)
    IN IF \A n \in TagNames : ~w.repos[r].annotatedTags[n].present
       THEN Returns(w, "finalizeTags", 0, 0)
       ELSE IF w1.fatal THEN w1
       ELSE Returns(write(w1, r, tagLines(w1, w1.repos[r].annotatedTags,
                                          tagKeys)),
                    "finalizeTags", 0, 0)

(***************************************************************************)
(* PrefixingRepository(repo, prefix) and its Transaction.                  *)
(***************************************************************************)
Prefixing_createBranch(w, repo, prefix, branch, revnum, branchFrom, revFrom) ==
    createBranch(w, repo, branch, revnum, branchFrom, revFrom)

Prefixing_deleteBranch(w, repo, prefix, branch, revnum) ==
    deleteBranch(w, repo, branch, revnum)

Prefixing_newTransaction(w, repo, prefix, t, branch, svnprefix, revnum) ==
    newTransaction(w, repo, t, branch, svnprefix, revnum)

Prefixing_createAnnotatedTag(w, repo, prefix, name, svnprefix, revnum, author, dt, log) ==
    createAnnotatedTag(w, repo, name, svnprefix, revnum, author, dt, log)

\* "loop that called this will invoke it on 'repo' too"
Prefixing_finalizeTags(w, repo, prefix) == Returns(w, "finalizeTags", 0, 0)

Prefixing_setupIncremental(w, repo, prefix, cutoff) ==
    Returns(w, "setupIncremental", 1, cutoff)

Prefixing_restoreLog(w, repo, prefix) == Returns(w, "restoreLog", 0, 0)

Prefixing_commit(w, t, prefix) == commit(w, t)
Prefixing_setAuthor(w, t, prefix, author) == setAuthor(w, t, author)
Prefixing_setDateTime(w, t, prefix, dt) == setDateTime(w, t, dt)
Prefixing_setLog(w, t, prefix, log) == setLog(w, t, log)
Prefixing_noteCopyFromBranch(w, t, prefix, prevbranch, revFrom) ==
    noteCopyFromBranch(w, t, prevbranch, revFrom)
Prefixing_deleteFile(w, t, prefix, path) == deleteFile(w, t, prefix \o path)
\* the facade's addFile passing the path as it got it
Prefixing_addFile_bare(w, t, prefix, path, mode, len) ==
    addFile(w, t, path, mode, len)

Prefixing_addFile(w, t, prefix, path, mode, len) ==
    addFile(w, t, prefix \o path, mode, len)
\* ~Transaction() { delete txn; }
Prefixing_deleteTransaction(w, t, prefix) == deleteTransaction(w, t)

(***************************************************************************)
(* Actions: one call of an operation by the single-threaded caller.        *)
(***************************************************************************)
\* what a read of the last element of an empty vector can give
Oracles == {"abort", "zero", "nonzero"}

Ready(r) == ~fatal /\ phase[r] = "ready"
Open(t) == ~fatal /\ txns[t].status = "open"

\* entries in all the branch histories of repository r
RECURSIVE historySize(_, _)
historySize(branches, keys) ==
    IF keys = <<>> THEN 0
    ELSE Len(branches[Head(keys)].commits) + historySize(branches, Tail(keys))

SetupIncremental(r, cutoff) ==
    /\ ~fatal /\ phase[r] = "constructed"
    /\ Becomes(setupIncremental(World, r, cutoff))
    /\ phase' = [phase EXCEPT ![r] = "ready"]

RestoreLog(r) ==
    /\ Ready(r)
    /\ Becomes(restoreLog(World, r))
    /\ UNCHANGED phase

CreateBranch(r, branch, revnum, branchFrom, revFrom) ==
    /\ Ready(r)
    /\ Len(repos[r].branches[branch].commits) < MaxHistory
    /\ \E o \in Oracles :
          Becomes(createBranch([World EXCEPT !.oracle = o], r, branch, revnum,
                               branchFrom, revFrom))
    /\ UNCHANGED phase

DeleteBranch(r, branch, revnum) ==
    /\ Ready(r)
    /\ Len(repos[r].branches[branch].commits) < MaxHistory
    /\ \E o \in Oracles :
          Becomes(deleteBranch([World EXCEPT !.oracle = o], r, branch, revnum))
    /\ UNCHANGED phase

NewTransaction(r, t, branch, revnum) ==
    /\ Ready(r)
    /\ txns[t].status = "none"
    /\ \A u \in TxnIds : u < t => txns[u].status # "none"
    /\ repos[r].commitCount < MaxTransactions
    /\ Becomes(newTransaction(World, r, t, branch, "/p", revnum))
    /\ UNCHANGED phase

SetAuthor(t, author) ==
    /\ Open(t)
    /\ Becomes(setAuthor(World, t, author))
    /\ UNCHANGED phase

SetDateTime(t, dt) ==
    /\ Open(t)
    /\ Becomes(setDateTime(World, t, dt))
    /\ UNCHANGED phase

SetLog(t, log) ==
    /\ Open(t)
    /\ Becomes(setLog(World, t, log))
    /\ UNCHANGED phase

NoteCopyFromBranch(t, branchFrom, revFrom) ==
    /\ Open(t)
    /\ Becomes(noteCopyFromBranch(World, t, branchFrom, revFrom))
    /\ UNCHANGED phase

DeleteFile(t, path) ==
    /\ Open(t)
    /\ Len(txns[t].deletedFiles) < MaxFiles
    /\ Becomes(deleteFile(World, t, path))
    /\ UNCHANGED phase

AddFile(t, path, mode, len) ==
    /\ Open(t)
    /\ Len(txns[t].modifiedFiles) < MaxFiles
    /\ Becomes(addFile(World, t, path, mode, len))
    /\ UNCHANGED phase

Commit(t) ==
    /\ Open(t)
    /\ Becomes(commit(World, t))
    /\ UNCHANGED phase

\* delete txn, after commit() or without it
DeleteTransaction(t) ==
    /\ ~fatal /\ txns[t].status # "none"
    /\ Becomes(deleteTransaction(World, t))
    /\ UNCHANGED phase

CreateAnnotatedTag(r, ref, revnum, author, dt, log) ==
    /\ Ready(r)
    /\ Becomes(createAnnotatedTag(World, r, ref, "/p", revnum, author, dt, log))
    /\ UNCHANGED phase

FinalizeTags(r) ==
    /\ Ready(r)
    /\ Becomes(finalizeTags(World, r))
    /\ UNCHANGED phase

(***************************************************************************)
(* Initial states: the repositories right after construction, with the     *)
(* files each finds in the working directory.                              *)
(***************************************************************************)
RECURSIVE decimal(_)
\* the decimal digits of n, as git fast-import writes a mark
decimal(n) ==
    IF n < 10 THEN <<ToString(n)>>
    ELSE decimal(n \div 10) \o <<ToString(n % 10)>>

\* a line ":<mark> <sha>\n" of a marks file
MarkLine(m) == <<":">> \o decimal(m) \o <<" ", "sha", "\n">>

\* a marks file with the marks 1..n, and the log of n commits on master
MarksUpTo(n) == File([i \in 1..n |-> MarkLine(i)])
LogUpTo(n) == File([i \in 1..n |-> ProgressLine(i, "master", i, "")])

\* a repository created by this run: no log, an empty marks file
FreshFiles == [logfile |-> NoFile, bkup |-> NoFile, marksfile |-> File(<<>>)]
\* a repository an earlier run left after n commits
ResumedFiles(n) ==
    [logfile |-> LogUpTo(n), bkup |-> NoFile, marksfile |-> MarksUpTo(n)]

\* used: the repositories of the specification, each with files of fileSets;
\* the others stay as constructed and are never called.  budget: the calls
\* of the run.
InitWith(used, fileSets, dryRuns, metas, budget) ==
    /\ \E f \in [used -> fileSets] :
          repos = [r \in Repos |->
                      LET g == IF r \in used THEN f[r] ELSE FreshFiles
                      IN [NewRepository EXCEPT !.logfile = g.logfile,
                                               !.bkup = g.bkup,
                                               !.marksfile = g.marksfile]]
    /\ processCache = <<>>
    /\ txns = [t \in TxnIds |-> NoTxn]
    /\ fatal = FALSE
    /\ \E d \in dryRuns, m \in metas :
          options = [dryRun |-> d, addMetadata |-> m]
    /\ result = NoResult
    /\ phase = [r \in Repos |-> "constructed"]
    /\ callsLeft = budget

INT_MAX == 2147483647

(***************************************************************************)
(* Spec: the mark allocator.  One repository, new or resumed, and the      *)
(* transactions opened, filled, committed and deleted on it.               *)
(***************************************************************************)
Init ==
    InitWith({1}, {FreshFiles, ResumedFiles(maxMark - Headroom)},
             {FALSE}, {FALSE}, MaxCalls)

Next ==
    \/ SetupIncremental(1, INT_MAX)
    \/ \E t \in TxnIds : NewTransaction(1, t, "master", MaxRev)
    \/ \E t \in TxnIds : AddFile(t, <<"f">>, 33188, 5)
    \/ \E t \in TxnIds : Commit(t)
    \/ \E t \in TxnIds : DeleteTransaction(t)

Spec == Init /\ [][Next]_vars

(***************************************************************************)
(* SpecResume: setupIncremental and restoreLog on the logs and marks files *)
(* an earlier run can have left.                                           *)
(***************************************************************************)
\* Lines of a log.
MaxLog == 3
\* Calls made on the repository of SpecResume.
MaxResumeCalls == 3
LogRevs == {1, 2}
LogMarks == {0, 1, 2}
LogBranches == {"master", "b1"}
LogLines ==
    {ProgressLine(rev, b, m, "") : rev \in LogRevs, b \in LogBranches,
                                   m \in LogMarks}
    \cup {ReloadedLine("refs/heads/master")}
Logs == UNION {[1..n -> LogLines] : n \in 0..MaxLog}
Cutoffs == {2, INT_MAX}

ResumeFiles ==
    {[logfile |-> File(l), bkup |-> b, marksfile |-> m] :
        l \in Logs, b \in {NoFile, File(<<>>)},
        m \in {NoFile} \cup {MarksUpTo(n) : n \in {1, 2}}}

InitResume == InitWith({1}, ResumeFiles, {FALSE}, {FALSE}, MaxResumeCalls)

NextResume ==
    \/ \E c \in Cutoffs : SetupIncremental(1, c)
    \/ RestoreLog(1)

SpecResume == InitResume /\ [][NextResume]_vars

(***************************************************************************)
(* SpecPool: the repositories of one run sharing the process cache.        *)
(***************************************************************************)
\* Calls made in a run of SpecPool.
MaxPoolCalls == 6

InitPool == InitWith(Repos, {FreshFiles}, {FALSE}, {FALSE}, MaxPoolCalls)

NextPool ==
    \/ \E r \in Repos : SetupIncremental(r, INT_MAX)
    \/ \E r \in Repos : CreateBranch(r, "b1", 1, "master", 1)
    \/ \E r \in Repos : DeleteBranch(r, "b1", 2)
    \/ \E r \in Repos, t \in TxnIds : NewTransaction(r, t, "master", 1)
    \/ \E t \in TxnIds : Commit(t)
    \/ \E t \in TxnIds : DeleteTransaction(t)
    \/ \E r \in Repos : CreateAnnotatedTag(r, "refs/tags/t1", 1, "a", 0, <<"m">>)
    \/ \E r \in Repos : FinalizeTags(r)

SpecPool == InitPool /\ [][NextPool]_vars

(***************************************************************************)
(* SpecPrefix: one sequence of calls made twice, on repository 1 through   *)
(* PrefixingRepository(1, Prefix) with transaction 1, and on repository 2  *)
(* itself with transaction 2 and the paths Prefix + p.  setupIncremental   *)
(* is called on the repositories themselves.                               *)
(***************************************************************************)
\* Calls made in a run of SpecPrefix, each on both repositories.
MaxPrefixCalls == 6

Prefix == <<"sub", "/">>
Paths == {<<>>, <<"f">>, <<"d", "/">>}

InitPrefix ==
    \/ InitWith({1, 2}, {FreshFiles}, {FALSE}, {FALSE}, MaxPrefixCalls)
    \/ InitWith({1, 2}, {ResumedFiles(2)}, {FALSE}, {FALSE}, MaxPrefixCalls)

BothReady == Ready(1) /\ Ready(2)
BothOpen == Open(1) /\ Open(2)

P_SetupIncremental ==
    /\ ~fatal /\ phase[1] = "constructed" /\ phase[2] = "constructed"
    /\ Becomes(setupIncremental(setupIncremental(World, 1, INT_MAX),
                                2, INT_MAX))
    /\ phase' = [phase EXCEPT ![1] = "ready", ![2] = "ready"]

P_CreateBranch(branch, revnum, branchFrom, revFrom) ==
    /\ BothReady
    /\ Len(repos[1].branches[branch].commits) < MaxHistory
    /\ \E o \in Oracles :
          Becomes(createBranch(
                      Prefixing_createBranch([World EXCEPT !.oracle = o], 1,
                          Prefix, branch, revnum, branchFrom, revFrom),
                      2, branch, revnum, branchFrom, revFrom))
    /\ UNCHANGED phase

P_DeleteBranch(branch, revnum) ==
    /\ BothReady
    /\ Len(repos[1].branches[branch].commits) < MaxHistory
    /\ \E o \in Oracles :
          Becomes(deleteBranch(
                      Prefixing_deleteBranch([World EXCEPT !.oracle = o], 1,
                          Prefix, branch, revnum),
                      2, branch, revnum))
    /\ UNCHANGED phase

P_NewTransaction(branch, revnum) ==
    /\ BothReady
    /\ txns[1].status = "none" /\ txns[2].status = "none"
    /\ repos[1].commitCount < MaxTransactions
    /\ Becomes(newTransaction(
                   Prefixing_newTransaction(World, 1, Prefix, 1, branch, "/p",
                                            revnum),
                   2, 2, branch, "/p", revnum))
    /\ UNCHANGED phase

P_CreateAnnotatedTag(ref, revnum, author, dt, log) ==
    /\ BothReady
    /\ Becomes(createAnnotatedTag(
                   Prefixing_createAnnotatedTag(World, 1, Prefix, ref, "/p",
                                                revnum, author, dt, log),
                   2, ref, "/p", revnum, author, dt, log))
    /\ UNCHANGED phase

P_FinalizeTags ==
    /\ BothReady
    /\ Becomes(finalizeTags(Prefixing_finalizeTags(World, 1, Prefix), 2))
    /\ UNCHANGED phase

P_SetAuthor(author) ==
    /\ BothOpen
    /\ Becomes(setAuthor(Prefixing_setAuthor(World, 1, Prefix, author),
                         2, author))
    /\ UNCHANGED phase

P_SetDateTime(dt) ==
    /\ BothOpen
    /\ Becomes(setDateTime(Prefixing_setDateTime(World, 1, Prefix, dt), 2, dt))
    /\ UNCHANGED phase

P_SetLog(log) ==
    /\ BothOpen
    /\ Becomes(setLog(Prefixing_setLog(World, 1, Prefix, log), 2, log))
    /\ UNCHANGED phase

P_NoteCopyFromBranch(branchFrom, revFrom) ==
    /\ BothOpen
    /\ Becomes(noteCopyFromBranch(
                   Prefixing_noteCopyFromBranch(World, 1, Prefix, branchFrom,
                                                revFrom),
                   2, branchFrom, revFrom))
    /\ UNCHANGED phase

P_DeleteFile(path) ==
    /\ BothOpen
    /\ Len(txns[1].deletedFiles) < MaxFiles
    /\ Becomes(deleteFile(Prefixing_deleteFile(World, 1, Prefix, path),
                          2, Prefix \o path))
    /\ UNCHANGED phase

P_AddFile(path, mode, len) ==
    /\ BothOpen
    /\ Len(txns[1].modifiedFiles) < MaxFiles
    /\ Becomes(addFile(Prefixing_addFile(World, 1, Prefix, path, mode, len),
                       2, Prefix \o path, mode, len))
    /\ UNCHANGED phase

P_Commit ==
    /\ BothOpen
    /\ Becomes(commit(Prefixing_commit(World, 1, Prefix), 2))
    /\ UNCHANGED phase

P_DeleteTransaction ==
    /\ ~fatal /\ txns[1].status # "none" /\ txns[2].status # "none"
    /\ Becomes(deleteTransaction(
                   Prefixing_deleteTransaction(World, 1, Prefix), 2))
    /\ UNCHANGED phase

NextPrefix ==
    \/ P_SetupIncremental
    \/ P_CreateBranch("b1", MaxRev, "master", 2)
    \/ P_DeleteBranch("b1", MaxRev)
    \/ \E b \in {"master", "b1"} : P_NewTransaction(b, MaxRev)
    \/ P_CreateAnnotatedTag("refs/tags/t1", MaxRev, "a", 7, <<"m">>)
    \/ P_FinalizeTags
    \/ P_SetAuthor("a")
    \/ P_SetDateTime(7)
    \/ P_SetLog(<<"m", "\n">>)
    \/ P_NoteCopyFromBranch("master", 1)
    \/ \E p \in Paths : P_DeleteFile(p)
    \/ \E p \in Paths : P_AddFile(p, 33188, 5)
    \/ P_Commit
    \/ P_DeleteTransaction

SpecPrefix == InitPrefix /\ [][NextPrefix]_vars

(***************************************************************************)
(* SpecCommit: transactions of one repository that carry merges, deletions *)
(* and files, one or two of them outstanding at a time.                    *)
(***************************************************************************)
\* Calls made in a run of SpecCommit.
MaxCommitCalls == 8

\* a repository an earlier run left after n commits on branch b1
CopiedFiles(n) ==
    [logfile |-> File([i \in 1..n |-> ProgressLine(i, "b1", i, "")]),
     bkup |-> NoFile, marksfile |-> MarksUpTo(n)]

InitCommit == InitWith({1}, {CopiedFiles(2)}, BOOLEAN, {FALSE}, MaxCommitCalls)

NextCommit ==
    \/ SetupIncremental(1, INT_MAX)
    \/ \E t \in TxnIds : NewTransaction(1, t, "master", MaxRev)
    \/ \E t \in TxnIds, rev \in {1, 2} : NoteCopyFromBranch(t, "b1", rev)
    \/ \E t \in TxnIds, p \in {<<>>, <<"d">>} : DeleteFile(t, p)
    \/ \E t \in TxnIds : AddFile(t, <<"f">>, 33188, 5)
    \/ \E t \in TxnIds : Commit(t)
    \/ \E t \in TxnIds : DeleteTransaction(t)

SpecCommit == InitCommit /\ [][NextCommit]_vars

(***************************************************************************)
(* SpecParents: a transaction that notes copies from more revisions of     *)
(* branch b1 than a commit can have parents.                               *)
(***************************************************************************)
\* Commits an earlier run left on b1, each a merge parent to note.
MaxMerges == 18
\* The first revisions of b1 are noted in any order and more than once, the
\* others in ascending order.
Disorder == 2
\* Calls made in a run of SpecParents.
MaxParentsCalls == 23

\* the log of MaxMerges commits on b1, with a later commit on master or not
ParentsFiles ==
    {[logfile |-> File([i \in 1..MaxMerges |-> ProgressLine(i, "b1", i, "")]
                       \o tip),
      bkup |-> NoFile, marksfile |-> MarksUpTo(MaxMerges + 1)] :
        tip \in {<<>>, <<ProgressLine(MaxMerges + 1, "master",
                                      MaxMerges + 1, "")>>}}

InitParents == InitWith({1}, ParentsFiles, {FALSE}, {FALSE}, MaxParentsCalls)

noted(t, rev) == contains(txns[t].merges, rev)

\* b2 is created from revision 2 of b1 before the transaction is opened
BranchOff ==
    /\ txns[1].status = "none"
    /\ CreateBranch(1, "b2", MaxMerges + 2, "b1", 2)

\* the caller notes a copy from a revision of b1
NoteNext(t) ==
    \E rev \in 1..MaxMerges :
        /\ \/ rev <= Disorder
           \/ ~noted(t, rev) /\ \A q \in 1..(rev - 1) : noted(t, q)
        /\ NoteCopyFromBranch(t, "b1", rev)

NextParents ==
    \/ SetupIncremental(1, INT_MAX)
    \/ BranchOff
    \/ \E b \in {"master", "b2"} : NewTransaction(1, 1, b, MaxMerges + 3)
    \/ NoteNext(1)
    \/ Commit(1)

SpecParents == InitParents /\ [][NextParents]_vars

\* the repository of Spec and the lines written to its importer
R1 == repos[1]
Out1 == repos[1].out

LinesOf(out, k) == {i \in 1..Len(out) : out[i].k = k}

\* C1: a blob mark handed out by a completed addFile is greater than
\* last_commit_mark + 1, a commit mark taken by a completed commit() is less
\* than next_file_mark - 1, and a call whose mark would violate this ends in
\* the fatal state without having written its blob or commit line.
C1_MarkDisjointness ==
    /\ (result.op = "addFile" /\ ~fatal) =>
          /\ result.ret > R1.last_commit_mark + 1
          /\ Out1 # <<>> /\ Last(Out1).k = "blob"
          /\ Last(Out1).mark = result.ret
    /\ (result.op = "commit" /\ ~fatal) =>
          /\ result.ret < R1.next_file_mark - 1
          /\ \E i \in LinesOf(Out1, "commit") : Out1[i].mark = result.ret
    /\ (result.op = "addFile" /\ fatal) =>
          /\ ~(result.ret > R1.last_commit_mark + 1)
          /\ Out1 = <<>> \/ ~(Last(Out1).k = "blob"
                              /\ Last(Out1).mark = result.ret)
    /\ (result.op = "commit" /\ fatal) =>
          /\ ~(result.ret < R1.next_file_mark - 1)
          /\ \A i \in LinesOf(Out1, "commit") : Out1[i].mark # result.ret

\* an addFile met the commit marks and aborted
C1_Witness == fatal /\ result.op = "addFile"

\* C2, as claimed: no commit mark equals the mark of a blob written earlier
\* in the run.
C2_NeverCollide ==
    \A i \in LinesOf(Out1, "blob"), j \in LinesOf(Out1, "commit") :
        i < j => Out1[i].mark # Out1[j].mark

\* The blob lines of the current cohort: those written since next_file_mark
\* was last reset, i.e. from the last "mark :maxMark" blob on, if any blob
\* was handed out since the reset.
CohortBlobs ==
    LET starts == {i \in LinesOf(Out1, "blob") : Out1[i].mark = maxMark}
        start == CHOOSE i \in starts : \A j \in starts : j <= i
    IN IF R1.next_file_mark = maxMark \/ starts = {} THEN {}
       ELSE {i \in LinesOf(Out1, "blob") : i >= start}

\* C2, amended: the mark of a completed commit() equals no blob mark handed
\* out since next_file_mark was last reset to maxMark.
C2_NoCollisionInCohort ==
    (result.op = "commit" /\ ~fatal) =>
        \A i \in CohortBlobs : Out1[i].mark # result.ret

\* a commit completed while blobs of its cohort are outstanding, after an
\* earlier cohort was closed
C2_Witness ==
    /\ result.op = "commit" /\ ~fatal
    /\ CohortBlobs # {}
    /\ \E i \in LinesOf(Out1, "blob") : i \notin CohortBlobs

\* the largest mark of the progress lines of a log
maxLogMark(lines) ==
    LET marks == {lines[i].mark :
                    i \in {j \in 1..Len(lines) : lines[j].k = "progress"}}
    IN IF marks = {} THEN 0
       ELSE CHOOSE m \in marks : \A x \in marks : x <= m

\* C3, in every state: the commit marks written are consecutive upwards from
\* the largest mark of the replayed log plus one; the first blob mark is
\* maxMark and each next one is smaller than the one before or is maxMark
\* again; next_file_mark is maxMark while no transaction is outstanding.
C3_State ==
    /\ \A i \in LinesOf(Out1, "commit") :
          Out1[i].mark = maxLogMark(R1.logfile.lines)
                         + Cardinality({j \in LinesOf(Out1, "commit") : j <= i})
    /\ \A i \in LinesOf(Out1, "blob") :
          LET before == {j \in LinesOf(Out1, "blob") : j < i}
              prev == CHOOSE j \in before : \A k \in before : k <= j
          IN IF before = {} THEN Out1[i].mark = maxMark
             ELSE Out1[i].mark < Out1[prev].mark \/ Out1[i].mark = maxMark
    /\ R1.outstandingTransactions = 0 => R1.next_file_mark = maxMark

\* C3, in every step: next_file_mark goes down by one, for the blob mark
\* handed out, or back up to maxMark, and up only in the step that brings
\* outstandingTransactions to 0.
C3_Step ==
    LET now == repos[1]
        next == repos'[1]
    IN /\ next.next_file_mark < now.next_file_mark =>
             /\ next.next_file_mark = now.next_file_mark - 1
             /\ result'.op = "addFile" /\ result'.ret = now.next_file_mark
       /\ next.next_file_mark > now.next_file_mark =>
             /\ next.next_file_mark = maxMark
             /\ now.outstandingTransactions = 1
             /\ next.outstandingTransactions = 0
       /\ (now.outstandingTransactions > 1 /\ result'.op = "deleteTransaction")
             => next.next_file_mark = now.next_file_mark

\* C3: mark monotonicity
C3_MarkMonotonicity == [](C3_State) /\ [][C3_Step]_vars

\* a second cohort was started and two transactions are outstanding
C3_Witness ==
    /\ Cardinality({i \in LinesOf(Out1, "blob") : Out1[i].mark = maxMark}) >= 2
    /\ R1.outstandingTransactions = 2
    /\ LinesOf(Out1, "commit") # {}

\* C10, as claimed: at every commit header the checkpoints written before it
\* are as many as the multiples of the commit interval the count of commits
\* has reached, this commit included.
C10_CheckpointCadence ==
    \A i \in LinesOf(Out1, "commit") :
        Cardinality({j \in LinesOf(Out1, "checkpoint") : j < i})
          = Cardinality({j \in LinesOf(Out1, "commit") : j <= i})
               \div CommitInterval

(***************************************************************************)
(* Claims checked under SpecResume.                                        *)
(***************************************************************************)
isProgress(line) == line.k = "progress"
onBranch(lines, b) ==
    LET m == SelectSeq(lines, isProgress)
        on(line) == line.ref = b
    IN SelectSeq(m, on)
revsOf(lines) == [i \in 1..Len(lines) |-> lines[i].rev]
marksOf(lines) == [i \in 1..Len(lines) |-> lines[i].mark]

\* the step a call of setupIncremental takes, and the one restoreLog takes
SetupStep == phase[1] = "constructed" /\ phase'[1] = "ready"
RestoreStep == result'.op = "restoreLog" /\ callsLeft' = callsLeft - 1

C4_Step ==
    LET lines == R1.logfile.lines
        m == SelectSeq(lines, isProgress)
        valid == lastValidMark(R1.marksfile)
        after == repos'[1]
    IN (/\ SetupStep
        /\ R1.logfile.exists
        /\ m # <<>>
        /\ \A i \in 1..Len(m) :
              m[i].rev < result'.arg /\ m[i].mark <= valid)
       => /\ result'.ret = Last(m).rev + 1
          /\ \A b \in BranchNames :
                /\ after.branches[b].commits
                     = R1.branches[b].commits \o revsOf(onBranch(lines, b))
                /\ after.branches[b].marks
                     = R1.branches[b].marks \o marksOf(onBranch(lines, b))
          /\ after.last_commit_mark = maxLogMark(lines)
          /\ after.logfile = R1.logfile

\* C4: when every matching line of the log has a revision below the cutoff
\* passed and a mark no greater than the last valid mark of the marks file,
\* and k is the revision of the last matching line, setupIncremental on the
\* new object returns k + 1, appends to each branch the revisions and marks
\* of that branch's lines in the order of the log, leaves last_commit_mark at
\* the greatest mark of the log and leaves the log as it was.
C4_ResumeIdempotence == [][C4_Step]_vars

\* a log of three matching lines on two branches was replayed to its end
C4_Witness ==
    /\ result.op = "setupIncremental" /\ result.ret = 3
    /\ result.arg = INT_MAX
    /\ Len(SelectSeq(R1.logfile.lines, isProgress)) = 3
    /\ R1.branches["master"].commits # <<>>
    /\ Len(R1.branches["b1"].commits) = 2
    /\ R1.last_commit_mark = 2
    /\ Last(R1.logfile.lines).mark = 1

\* line i of the log is the first matching line whose mark is above the last
\* valid mark, and it and the matching lines before it are below cutoff
offendingAt(lines, i, valid, cutoff) ==
    /\ isProgress(lines[i])
    /\ lines[i].mark > valid
    /\ \A j \in 1..i :
          isProgress(lines[j]) =>
              /\ lines[j].rev < cutoff
              /\ j < i => lines[j].mark <= valid

C5_Step ==
    LET lines == R1.logfile.lines
        valid == lastValidMark(R1.marksfile)
        after == repos'[1]
    IN /\ \A i \in 1..Len(lines) :
             (/\ SetupStep
              /\ R1.logfile.exists
              /\ offendingAt(lines, i, valid, result'.arg))
             => /\ result'.cutoff = lines[i].rev
                /\ result'.cutoff < result'.arg
                /\ result'.ret = lines[i].rev
                /\ after.bkup = File(lines)
                /\ after.logfile = File(SubSeq(lines, 1, i - 1))
       /\ (RestoreStep /\ R1.bkup.exists)
             => /\ after.logfile = R1.bkup
                /\ ~after.bkup.exists

\* C5: when setupIncremental meets a matching line whose mark is above the
\* last valid mark before any line at or above the cutoff, the cutoff
\* becomes that line's revision, which is also returned, the backup holds
\* the whole log and the log keeps the lines before that line; restoreLog
\* then puts the backup in the place of the log and leaves no backup.
C5_RewindSafety == [][C5_Step]_vars

\* restoreLog brought back a log of three lines that had been cut at its
\* second line, whose mark the marks file does not hold
C5_Witness ==
    LET lines == R1.logfile.lines
    IN /\ result.op = "restoreLog"
       /\ ~R1.bkup.exists
       /\ Len(lines) = 3
       /\ \A i \in 1..3 : isProgress(lines[i]) /\ lines[i].rev = 1
       /\ lines[1].mark = 1
       /\ lines[2].mark = 2
       /\ lastValidMark(R1.marksfile) = 1
       /\ historySize(R1.branches, branchKeys) = 1

(***************************************************************************)
(* Claims checked under SpecPool.                                          *)
(***************************************************************************)
Running == {r \in Repos : repos[r].running}

\* C6, as claimed: the repositories whose importer is running are never more
\* than maxSimultaneousProcesses.
C6_BoundedPool == Cardinality(Running) <= maxSimultaneousProcesses

(***************************************************************************)
(* Claims checked under SpecPrefix.                                        *)
(***************************************************************************)
\* C7, as claimed: what was written to the importer of the repository
\* behind the facade equals what was written to the importer of the
\* repository called directly.
C7_PrefixTransparency == repos[1].out = repos[2].out

\* C7: as long as finalizeTags has written no tag on the repository called
\* directly, what was written to the importer of the repository behind the
\* facade equals what was written to the importer of the repository called
\* directly with the paths Prefix + p.
C7_TransparentWithoutTags ==
    LinesOf(repos[2].out, "tag") = {} => repos[1].out = repos[2].out

\* a commit with a prefixed M line and a prefixed D line went through the
\* facade, and no tag has been written
C7_Witness ==
    /\ result.op = "commit" /\ ~fatal
    /\ \E i \in LinesOf(repos[1].out, "M") :
          repos[1].out[i].text = Prefix \o <<"f">>
    /\ \E i \in LinesOf(repos[1].out, "D") :
          repos[1].out[i].text = Prefix \o <<"d">>
    /\ LinesOf(repos[2].out, "tag") = {}

(***************************************************************************)
(* Claims checked under SpecCommit and SpecParents.                        *)
(***************************************************************************)
\* transaction t is committed by the step; what the step wrote to the
\* importer of repository 1
CommitStep(t) == txns[t].status = "open" /\ txns'[t].status = "committed"
Written == SubSeq(repos'[1].out, Len(R1.out) + 1, Len(repos'[1].out))

\* the place of a command in a commit
rank(k) ==
    CASE k = "commit" -> 1
      [] k = "merge" -> 2
      [] k \in {"deleteall", "D"} -> 3
      [] k = "M" -> 4
      [] k = "progress" -> 5
      [] OTHER -> 0

ofKind(lines, kinds) ==
    LET is(line) == line.k \in kinds
    IN SelectSeq(lines, is)

\* the place of x in a sequence that holds it
placeOf(seq, x) == CHOOSE i \in 1..Len(seq) : seq[i] = x

C8_Step ==
    \A t \in TxnIds :
        CommitStep(t) =>
            LET txn == txns[t]
                new == Written
                merges == ofKind(new, {"merge"})
                dels == ofKind(new, {"deleteall", "D"})
                mods == ofKind(new, {"M"})
            IN /\ Len(new) >= 2
               /\ new[1].k = "commit" /\ new[1].mark = result'.ret
               /\ Last(new).k = "progress" /\ Last(new).mark = result'.ret
               /\ \A i \in 1..Len(new) : rank(new[i].k) > 0
               /\ \A i, j \in 1..Len(new) :
                     i < j => /\ rank(new[i].k) <= rank(new[j].k)
                              /\ rank(new[i].k) \in {1, 5}
                                    => rank(new[i].k) < rank(new[j].k)
               /\ \A i \in 1..Len(merges) : contains(txn.merges, merges[i].mark)
               /\ \A i, j \in 1..Len(merges) :
                     i < j => placeOf(txn.merges, merges[i].mark)
                                < placeOf(txn.merges, merges[j].mark)
               /\ \/ dels = <<DeleteAllLine>> /\ contains(txn.deletedFiles, <<>>)
                  \/ dels = [i \in 1..Len(txn.deletedFiles) |->
                                DLine(txn.deletedFiles[i])]
               /\ mods = txn.modifiedFiles
               /\ \A i, j \in 1..Len(mods) : i < j => mods[i].mark > mods[j].mark
               /\ ~options.dryRun =>
                     LET blobs == [i \in 1..Len(mods) |->
                                     CHOOSE b \in 0..Len(R1.out) :
                                        /\ b # 0 => /\ R1.out[b].k = "blob"
                                                    /\ R1.out[b].mark = mods[i].mark
                                        /\ \A c \in (b + 1)..Len(R1.out) :
                                              ~(/\ R1.out[c].k = "blob"
                                                /\ R1.out[c].mark = mods[i].mark)
                                        /\ b = 0 => \A c \in 1..Len(R1.out) :
                                              ~(/\ R1.out[c].k = "blob"
                                                /\ R1.out[c].mark = mods[i].mark)]
                     IN /\ \A i \in 1..Len(mods) : blobs[i] # 0
                        /\ \A i, j \in 1..Len(mods) : i < j => blobs[i] < blobs[j]

\* C8: a commit appends to what the importer was sent its header, then its
\* merge lines in the order the merges were noted, then a deleteall or its D
\* lines in the order of the deleteFile calls, then its M lines in the order
\* of the addFile calls, then its progress line; unless the run is a dry
\* run, the blob header of every M line's mark was sent before the commit
\* header, the blob headers being in the order of the M lines, also with the
\* blob headers of another outstanding transaction among them.
C8_ProtocolOrder == [][C8_Step]_vars

\* a commit with a merge and two M lines was written while another
\* transaction was outstanding whose blob lies between the blobs of the two
\* M lines
C8_Witness ==
    LET out == R1.out
    IN /\ result.op = "commit" /\ ~fatal /\ ~options.dryRun
       /\ Cardinality(LinesOf(out, "commit")) = 1
       /\ Cardinality(LinesOf(out, "M")) = 2
       /\ LinesOf(out, "merge") # {}
       /\ \E t \in TxnIds :
             /\ txns[t].status = "open" /\ Len(txns[t].modifiedFiles) = 1
             /\ \E i, j, k \in LinesOf(out, "blob") :
                   /\ i < j /\ j < k
                   /\ out[j].mark = txns[t].modifiedFiles[1].mark
                   /\ \E m, n \in LinesOf(out, "M") :
                         out[m].mark = out[i].mark /\ out[n].mark = out[k].mark

\* the merges of a transaction that are not the mark of the branch's tip
candidates(merges, tip) ==
    LET other(m) == m # tip
    IN SelectSeq(merges, other)

\* what C9 says of a commit with at most cap merge lines once the parents
\* would be more than maxParents
ParentCap(t, cap) ==
    LET txn == txns[t]
        br == R1.branches[txn.branch]
        tip == IF br.created # 0 /\ br.marks # <<>> THEN Last(br.marks) ELSE 0
        implicit == IF tip # 0 THEN 1 ELSE 0
        cand == candidates(txn.merges, tip)
        merges == ofKind(Written, {"merge"})
    IN /\ Len(merges) <= Len(cand)
       /\ \A i \in 1..Len(merges) : merges[i].mark = cand[i]
       /\ implicit + Len(merges) <= maxParents
       /\ implicit + Len(cand) <= maxParents
             => Len(merges) = Len(cand) /\ result'.warned = 0
       /\ implicit + Len(cand) > maxParents
             => /\ implicit + Len(merges) = maxParents
                /\ Len(merges) = cap[implicit]
                /\ result'.warned = 1

\* C9, as claimed: the merge lines of a commit are the transaction's merges
\* in the order they were noted, without the mark of the branch's tip; with
\* the tip, if its mark is not 0, they are at most 16 parents; when they
\* would be more, there are exactly 16, the tip and 15 merge lines, and one
\* warning.
C9_ParentCapOneImplicit ==
    [][\A t \in TxnIds :
          CommitStep(t) => ParentCap(t, [i \in {0, 1} |-> maxParents - 1])]_vars

\* C9: the merge lines of a commit are the transaction's merges in the order
\* they were noted, without the mark of the branch's tip; with the tip, if
\* its mark is not 0, they are at most 16 parents; when they would be more,
\* there are exactly 16 and one warning: the tip and 15 merge lines, or 16
\* merge lines when the branch has no tip with a mark other than 0.
C9_ParentCap ==
    [][\A t \in TxnIds :
          CommitStep(t) => ParentCap(t, [i \in {0, 1} |-> maxParents - i])]_vars

\* a commit on a branch whose tip was among the noted merges wrote 15 merge
\* lines and warned
C9_Witness ==
    /\ result.op = "commit" /\ ~fatal /\ result.warned = 1
    /\ txns[1].branch = "b2"
    /\ contains(txns[1].merges, 2)
    /\ Cardinality(LinesOf(R1.out, "merge")) = maxParents - 1
    /\ \A i \in LinesOf(R1.out, "merge") : R1.out[i].mark # 2

(***************************************************************************)
(* SpecBranches: the branch registry of one repository.  The run starts on *)
(* a new repository or on the log an earlier run left, and creates and     *)
(* deletes branches and commits with the revision numbers the caller       *)
(* passes.                                                                 *)
(***************************************************************************)
\* Calls made on the repository of SpecBranches.
MaxBranchCalls == 4

\* "progress Creating annotated tag <name> from ref <ref>" as the log has it
CreatingLine(name, ref) == Line("creating", name, ref, 0, 0, 0, <<>>)

\* Logs the importer of an earlier run has left: the progress lines of
\* commit(), resetBranch(), reloadBranches() and finalizeTags().
BranchLogs ==
    {<<ProgressLine(1, "master", 1, "")>>,
     <<ProgressLine(1, "master", 1, ""),
       ProgressLine(2, "b1", 1, " # from branch master")>>,
     <<ProgressLine(1, "b1", 0, " # delete")>>,
     <<ProgressLine(1, "master", 1, ""),
       ReloadedLine("refs/heads/master"),
       CreatingLine("t1", "refs/tags/t1")>>,
     <<ProgressLine(1, "master", 1, ""),
       ProgressLine(2, "b1", 2, " # merge from :1")>>,
     <<CreatingLine("t1", "refs/tags/t1")>>}

BranchFiles ==
    {[logfile |-> File(l), bkup |-> NoFile, marksfile |-> MarksUpTo(2)] :
        l \in BranchLogs}

BranchRevs == {1, 2}

InitBranches ==
    InitWith({1}, {FreshFiles} \cup BranchFiles, {FALSE}, {FALSE},
             MaxBranchCalls)

NextBranches ==
    \/ SetupIncremental(1, INT_MAX)
    \/ \E rev \in BranchRevs, from \in {"master", "b2"}, revFrom \in BranchRevs :
          CreateBranch(1, "b1", rev, from, revFrom)
    \/ \E b \in {"master", "b1"}, rev \in BranchRevs : DeleteBranch(1, b, rev)
    \/ \E b \in {"master", "b1"}, rev \in BranchRevs :
          NewTransaction(1, 1, b, rev)
    \/ Commit(1)
    \/ DeleteTransaction(1)

SpecBranches == InitBranches /\ [][NextBranches]_vars

\* C11: in every reachable state the commits and marks vectors of every
\* branch of every repository have the same length: createBranch,
\* deleteBranch, commit and setupIncremental append to both or to neither.
C11_VectorParallelism ==
    \A r \in Repos, b \in BranchNames :
        Len(repos[r].branches[b].commits) = Len(repos[r].branches[b].marks)

\* a log with a commit in it was replayed, a branch was created from the
\* branch of that commit, and a commit was made on the new branch
C11_Witness ==
    /\ result.op = "commit"
    /\ R1.logfile.lines = <<ProgressLine(1, "master", 1, "")>>
    /\ R1.branches["master"].marks = <<1>>
    /\ R1.branches["b1"].commits = <<2, 2>>
    /\ R1.branches["b1"].marks = <<1, 2>>

nonDecreasing(seq) == \A i \in 1..Len(seq) - 1 : seq[i] <= seq[i + 1]

\* C12 as stated: in every reachable state the commits vector of every
\* branch is non-decreasing, whatever revision numbers the calls pass and
\* whatever the log holds.
C12_SortedHistory ==
    \A r \in Repos, b \in BranchNames : nonDecreasing(repos[r].branches[b].commits)

C12_Step ==
    LET before(b) == R1.branches[b].commits
        after(b) == repos'[1].branches[b].commits
    IN /\ \A b \in BranchNames, rev \in BranchRevs :
             result'.op = "deleteBranch" /\ ~fatal' /\ DeleteBranch(1, b, rev)
             => after(b) = Append(before(b), rev)
       /\ \A rev \in BranchRevs, from \in BranchNames, revFrom \in BranchRevs :
             (/\ result'.op = "createBranch"
              /\ ~fatal' /\ result'.ret = EXIT_SUCCESS
              /\ CreateBranch(1, "b1", rev, from, revFrom))
             => after("b1") = Append(before("b1"), rev)
       /\ CommitStep(1)
             => after(txns[1].branch) =
                    Append(before(txns[1].branch), txns[1].revnum)
       /\ SetupStep
             => \A b \in BranchNames :
                   after(b) = before(b) \o revsOf(onBranch(R1.logfile.lines, b))

\* C12, amended: the commits vector of a branch is the revision numbers of
\* the calls and of the log lines for that branch in their order.  A
\* successful createBranch or deleteBranch and a commit append the revnum
\* they were given at the end, and setupIncremental appends the revisions
\* of the log in the order of its lines; nothing sorts the vector or refuses
\* a smaller revision, so it is non-decreasing only when those numbers are.
C12_AppendsInCallOrder == [][C12_Step]_vars

\* a branch deleted at revision 2 and deleted again at revision 1
C12_Witness ==
    /\ result.op = "deleteBranch" /\ ~fatal
    /\ R1.branches["b1"].commits = <<2, 1>>

\* the progress lines commit() writes: no comment, or " # merge from ..."
byCommit(line) ==
    /\ isProgress(line)
    /\ line.arg \in {""} \cup {" # merge from" \o mergeDesc(<<m>>) : m \in 1..2}

commitLinesOn(lines, b) ==
    LET on(line) == byCommit(line) /\ line.ref = b
    IN SelectSeq(lines, on)

\* C13 as stated: when setupIncremental replays a log, only the progress
\* lines of commit() add an entry to a branch or change last_commit_mark;
\* those of branch resets, reloadBranches and finalizeTags change nothing.
C13_OnlyCommitLinesReplayed ==
    [][SetupStep =>
          /\ \A b \in BranchNames :
                /\ repos'[1].branches[b].commits =
                      R1.branches[b].commits
                      \o revsOf(commitLinesOn(R1.logfile.lines, b))
                /\ repos'[1].branches[b].marks =
                      R1.branches[b].marks
                      \o marksOf(commitLinesOn(R1.logfile.lines, b))
          /\ repos'[1].last_commit_mark =
                maxLogMark(SelectSeq(R1.logfile.lines, byCommit))]_vars

C13_Step ==
    LET lines == R1.logfile.lines
        skipped(line) == line.k \in {"reloaded", "creating"}
    IN SetupStep =>
          /\ \A b \in BranchNames :
                /\ Len(repos'[1].branches[b].commits) =
                      Len(R1.branches[b].commits) + Len(onBranch(lines, b))
                /\ repos'[1].branches[b].marks =
                      R1.branches[b].marks \o marksOf(onBranch(lines, b))
          /\ repos'[1].last_commit_mark = maxLogMark(lines)
          /\ (\A i \in 1..Len(lines) : skipped(lines[i])) => repos'[1] = R1

\* C13, amended: setupIncremental replays every "progress SVN r<n> branch
\* <b> = :<m>" line of the log, those of commit() and those of the branch
\* resets of createBranch and deleteBranch alike (their comment is cut at
\* the '#'): each adds the entry (n, m) to branch b and can raise
\* last_commit_mark.  The progress lines of reloadBranches and of
\* finalizeTags are skipped, and a log of such lines only leaves the
\* repository as it was.
C13_ResetLinesReplayed == [][C13_Step]_vars

\* the log of a commit on master and a branch made from it was replayed
C13_Witness ==
    /\ result.op = "setupIncremental"
    /\ R1.logfile.lines = <<ProgressLine(1, "master", 1, ""),
                            ProgressLine(2, "b1", 1, " # from branch master")>>
    /\ R1.branches["b1"] = [created |-> 2, commits |-> <<2>>, marks |-> <<1>>]

(***************************************************************************)
(* SpecLatch: the importer processes of the repositories of one run, which *)
(* are launched, closed by the process cache, and can die on their own.    *)
(***************************************************************************)
\* Calls made and crashes suffered in a run of SpecLatch.
MaxLatchCalls == 11

RECURSIVE setupAll(_, _)
\* setupIncremental called on every repository from r on, as the run does
\* before any revision is exported
setupAll(w, r) ==
    IF r \notin Repos THEN w
    ELSE setupAll(setupIncremental(w, r, INT_MAX), r + 1)

SetupAll ==
    /\ ~fatal /\ \A r \in Repos : phase[r] = "constructed"
    /\ Becomes(setupAll(World, 1))
    /\ phase' = [r \in Repos |-> "ready"]

\* The importer of repository r dies: fastImport.state() becomes NotRunning
\* and no member of the repository changes.
crash(w, r) == Returns([w EXCEPT !.repos[r].running = FALSE], "crash", r, 0)

Crash(r) ==
    /\ ~fatal /\ repos[r].running
    /\ Becomes(crash(World, r))
    /\ UNCHANGED phase

InitLatch == InitWith(Repos, {FreshFiles}, {FALSE}, {FALSE}, MaxLatchCalls)

\* createBranch, deleteBranch and finalizeTags called on a repository whose
\* importer is not running, so that startFastImport has to act
ColdCreateBranch(r) == ~repos[r].running /\ CreateBranch(r, "b1", 1, "master", 1)
ColdDeleteBranch(r) == ~repos[r].running /\ DeleteBranch(r, "b1", 1)
ColdFinalizeTags(r) == ~repos[r].running /\ FinalizeTags(r)

NextLatch ==
    \/ SetupAll
    \/ \E r \in Repos : NewTransaction(r, 1, "master", 1)
    \/ Commit(1)
    \/ DeleteTransaction(1)
    \/ ColdCreateBranch(1)
    \/ ColdDeleteBranch(1)
    \/ CreateAnnotatedTag(1, "refs/tags/t1", 1, "a", 0, <<"m">>)
    \/ ColdFinalizeTags(1)
    \/ Crash(1)

SpecLatch == InitLatch /\ [][NextLatch]_vars

\* the calls of SpecLatch on repository r that reach startFastImport
StartingCall(r) ==
    \/ \E t \in TxnIds : NewTransaction(r, t, "master", 1)
    \/ CreateBranch(r, "b1", 1, "master", 1)
    \/ DeleteBranch(r, "b1", 1)
    \/ FinalizeTags(r) /\ \E n \in TagNames : repos[r].annotatedTags[n].present

C14_Step ==
    \A r \in Repos :
       LET before == repos[r]
           after == repos'[r]
       IN \* a launch finds the latch clear and sets it
          /\ ~before.running /\ after.running
                => ~before.processHasStarted /\ after.processHasStarted
          \* the latch is cleared by closeFastImport only: the commit of
          \* another repository's transaction has taken r from the front of
          \* the process cache and closed its importer after a checkpoint
          /\ before.processHasStarted /\ ~after.processHasStarted
                => /\ result'.op = "commit"
                   /\ processCache # <<>> /\ Head(processCache) = r
                   /\ ~contains(processCache', r)
                   /\ ~after.running
                   /\ before.running =>
                         after.out = Append(before.out, CheckpointLine)
          \* after a crash the next call that reaches startFastImport aborts
          /\ (before.processHasStarted /\ ~before.running /\ StartingCall(r))
                => /\ fatal'
                   /\ ~after.running
                   /\ after.out = before.out

MissingAncestorStep ==
    \E rev \in BranchRevs, from \in BranchNames, revFrom \in BranchRevs :
        /\ R1.branches[from].created = 0 \/ R1.branches[from].commits = <<>>
        /\ CreateBranch(1, "b1", rev, from, revFrom)

aboutBranch(line, b) ==
    /\ line.k \in {"reset", "progress", "reloaded"}
    /\ line.ref \in {b, branchRefOf(b)}

\* C15 as stated: createBranch(B, r, F, rf) with F never created or without
\* entries returns failure, leaves B's commits, marks and created as they
\* were and emits no reset or progress line for B.
C15_MissingAncestorSilent ==
    [][MissingAncestorStep =>
          /\ result'.ret = EXIT_FAILURE
          /\ repos'[1].branches["b1"] = R1.branches["b1"]
          /\ \A i \in 1..Len(Written) : ~aboutBranch(Written[i], "b1")]_vars

\* C15, amended: such a createBranch returns failure and leaves every
\* branch as it was; of its own it writes nothing, but it has called
\* startFastImport first, so when the importer was not running it has
\* launched it and written the reset and "reloaded" progress lines of
\* reloadBranches, those of B among them when B's last mark is not 0.
C15_MissingAncestor ==
    [][MissingAncestorStep =>
          /\ result'.op = "createBranch" /\ result'.ret = EXIT_FAILURE
          /\ ~fatal'
          /\ repos'[1].branches = R1.branches
          /\ repos'[1].running
          /\ Written = IF R1.running THEN <<>>
                       ELSE reloadLines(R1.branches, branchKeys)]_vars

\* a createBranch of b1 from the unknown b2 has failed as the first call
\* after a replay and has written the reload lines of b1
C15_Witness ==
    /\ result.op = "createBranch" /\ result.ret = EXIT_FAILURE
    /\ R1.branches["b2"].created = 0
    /\ Out1 = <<ResetLine("refs/heads/master", ":1"),
                ReloadedLine("refs/heads/master"),
                ResetLine("refs/heads/b1", ":2"),
                ReloadedLine("refs/heads/b1")>>

\* C16: in every reachable state branches["master"].created >= 1 in every
\* repository, after any createBranch, deleteBranch, commit and
\* setupIncremental, those that target master included.
C16_MasterExists ==
    \A r \in Repos : repos[r].branches["master"].created >= 1

\* master has been deleted at revision 2 and a commit was made on it after
C16_Witness ==
    /\ result.op = "commit" /\ ~fatal
    /\ Len(R1.branches["master"].marks) >= 2
    /\ \E i \in 1..Len(R1.branches["master"].marks) - 1 :
          R1.branches["master"].marks[i] = 0
    /\ R1.branches["master"].created = 2

\* createBranch("b1", rev, from, revFrom) of SpecBranches called when the
\* latest entry of from is (revFrom, m) with m > 0
LatestEntryStep(rev, from, revFrom) ==
    LET brFrom == R1.branches[from]
    IN /\ brFrom.created # 0 /\ brFrom.commits # <<>>
       /\ Last(brFrom.commits) = revFrom /\ Last(brFrom.marks) > 0
       /\ CreateBranch(1, "b1", rev, from, revFrom)

\* C17 as stated: such a createBranch(B, r, F, rf), m being the mark of F's
\* latest entry, emits "reset refs/heads/B", "from :m", a blank line and the
\* progress line "progress SVN r<r> branch B = :0 # from branch F at r<rf>".
C17_CreationRecordsMarkZero ==
    [][\A rev \in BranchRevs, from \in BranchNames, revFrom \in BranchRevs :
          LatestEntryStep(rev, from, revFrom) /\ ~fatal'
          => LET m == Last(R1.branches[from].marks)
                 n == Len(Written)
             IN /\ n >= 2
                /\ Written[n - 1] = ResetLine("refs/heads/b1", ":" \o ToString(m))
                /\ Written[n] =
                      ProgressLine(rev, "b1", 0,
                                   " # from branch " \o from \o " at r"
                                   \o ToString(revFrom))]_vars

\* C17, amended: it emits "reset refs/heads/B", "from :m", a blank line and
\* "progress SVN r<r> branch B = :m # from branch F": the progress line
\* records the mark m, and the comment names the branch only (" at r<rf>"
\* is added when markFrom has to search for the revision).  Before them come
\* the reload lines if the call launched the importer, and the backup reset
\* "reset refs/backups/r<r>/heads/B from refs/heads/B" if B was created at
\* another revision and its last mark is not 0.  B gets the entry (r, m).
C17_CreationRecordsMark ==
    [][\A rev \in BranchRevs, from \in BranchNames, revFrom \in BranchRevs :
          LatestEntryStep(rev, from, revFrom)
          => LET m == Last(R1.branches[from].marks)
                 br == R1.branches["b1"]
                 reload == IF R1.running THEN <<>>
                           ELSE reloadLines(R1.branches, branchKeys)
                 backup == IF /\ br.created # 0 /\ br.created # rev
                              /\ Last(br.marks) # 0
                           THEN <<ResetLine("refs/backups/r" \o ToString(rev)
                                            \o "/heads/b1", "refs/heads/b1")>>
                           ELSE <<>>
             IN /\ Written =
                      reload \o backup
                      \o <<ResetLine("refs/heads/b1", ":" \o ToString(m)),
                           ProgressLine(rev, "b1", m,
                                        " # from branch " \o from)>>
                /\ repos'[1].branches["b1"] =
                      [created |-> rev, commits |-> Append(br.commits, rev),
                       marks |-> Append(br.marks, m)]
                /\ result'.ret = EXIT_SUCCESS /\ ~fatal']_vars

\* b1 was created at revision 2 from master, whose latest entry is (1, 1)
C17_Witness ==
    /\ result.op = "createBranch" /\ result.ret = EXIT_SUCCESS /\ ~fatal
    /\ Len(Out1) >= 2
    /\ Out1[Len(Out1) - 1] = ResetLine("refs/heads/b1", ":1")
    /\ Last(Out1) = ProgressLine(2, "b1", 1, " # from branch master")
    /\ R1.branches["b1"] = [created |-> 2, commits |-> <<2>>, marks |-> <<1>>]

(***************************************************************************)
(* SpecMerges: the merges a transaction notes, copying from its own        *)
(* branch, from a branch never created, from a deleted branch and from     *)
(* revisions before, between and after the commits of a branch.            *)
(***************************************************************************)
\* Calls made in a run of SpecMerges.
MaxMergeCalls == 6

\* a repository an earlier run left with two commits on b1, at revisions 2
\* and 3, and one on master
MergeFiles ==
    [logfile |-> File(<<ProgressLine(2, "b1", 1, ""),
                        ProgressLine(3, "b1", 2, ""),
                        ProgressLine(3, "master", 3, "")>>),
     bkup |-> NoFile, marksfile |-> MarksUpTo(3)]

InitMerges == InitWith({1}, {MergeFiles}, {FALSE}, {FALSE}, MaxMergeCalls)

NextMerges ==
    \/ SetupIncremental(1, INT_MAX)
    \/ DeleteBranch(1, "b1", 4)
    \/ \E b \in {"master", "b1"} : NewTransaction(1, 1, b, 4)
    \/ \E from \in BranchNames, rev \in 1..4 : NoteCopyFromBranch(1, from, rev)
    \/ DeleteTransaction(1)

SpecMerges == InitMerges /\ [][NextMerges]_vars

C18_Step ==
    \A t \in TxnIds :
       LET old == txns[t].merges
           new == txns'[t].merges
       IN \* only marks > 0, none twice
          /\ \A i \in 1..Len(new) : new[i] > 0
          /\ \A i, j \in 1..Len(new) : new[i] = new[j] => i = j
          \* insertion order: a call leaves the list or adds one mark at
          \* its end
          /\ txns[t].status = "open" /\ txns'[t].status = "open"
                => new = old
                   \/ \E m \in 1..maxMark : ~contains(old, m) /\ new = Append(old, m)
          \* a copy from the transaction's own branch, and one that markFrom
          \* resolves to -1 or 0, leave the list as it is
          /\ \A from \in BranchNames, rev \in 1..4 :
                (/\ NoteCopyFromBranch(t, from, rev)
                 /\ \/ from = txns[t].branch
                    \/ markFrom(R1.branches, from, rev) \in {-1, 0})
                => new = old

\* C18: after any noteCopyFromBranch calls on a transaction its merges hold
\* only marks > 0, no mark twice, in the order of their first insertion; a
\* call whose source is the transaction's own branch, or resolves through
\* markFrom to -1 or 0, leaves merges unchanged.
C18_MergeListHygiene == [][C18_Step]_vars

\* a transaction on master has noted b1 at revision 3 and then at revision
\* 2, and its last call was a copy from master itself
C18_Witness ==
    /\ result.op = "noteCopyFromBranch"
    /\ txns[1].status = "open" /\ txns[1].branch = "master"
    /\ txns[1].merges = <<2, 1>>
    /\ callsLeft = 1

(***************************************************************************)
(* SpecMarks: lastValidMark over the marks files an earlier run, or an     *)
(* editor, can have left, and the resume that calls it.                    *)
(***************************************************************************)
\* Lines of a marks file, and calls made, in a run of SpecMarks.
MaxMarksLines == 3
MaxMarksCalls == 2

\* what QIODevice::readLine returns for an empty line of the file: the line
\* feed is part of the line
BlankLine == <<"\n">>

\* lines of a marks file: marks 0..3, a blank line, a line without the
\* colon, a mark that is no number
MarksLines ==
    {MarkLine(m) : m \in 0..3}
        \cup {BlankLine, <<"x", "\n">>, <<":", "a", " ", "sha", "\n">>}

MarksFiles ==
    {[logfile |-> LogUpTo(2), bkup |-> NoFile, marksfile |-> f] :
        f \in {NoFile} \cup
              {File(l) : l \in UNION {[1..n -> MarksLines] :
                                         n \in 0..MaxMarksLines}}}

InitMarks == InitWith({1}, MarksFiles, {FALSE}, {FALSE}, MaxMarksCalls)

\* lastValidMark(name) on the directory of repository r
LastValidMark(r) ==
    /\ ~fatal
    /\ Becomes(Returns(World, "lastValidMark",
                       lastValidMark(repos[r].marksfile), 0))
    /\ UNCHANGED phase

NextMarks ==
    \/ LastValidMark(1)
    \/ SetupIncremental(1, INT_MAX)

SpecMarks == InitMarks /\ [][NextMarks]_vars

\* the marks file without its blank lines
withoutBlankLines(marksfile) ==
    [marksfile EXCEPT !.lines = SelectSeq(@, LAMBDA l : l # BlankLine)]

\* C19: lastValidMark tolerates blank lines: for every marks file its result
\* equals the result on the same file with all blank lines removed.
C19_BlankLinesTolerated ==
    result.op = "lastValidMark"
        => result.ret = lastValidMark(withoutBlankLines(R1.marksfile))

\* the number of leading lines of the file that carry the marks 1, 2, ... in
\* that order
contiguous(lines) ==
    CHOOSE k \in 0..Len(lines) :
        /\ \A i \in 1..k : lines[i] = MarkLine(i)
        /\ k < Len(lines) => lines[k + 1] # MarkLine(k + 1)

\* line carries a mark above m
gapAfter(line, m) == \E n \in (m + 2)..(m + MaxMarksLines + 2) : line = MarkLine(n)

\* C20: the result of lastValidMark is the number m of leading lines that
\* carry the marks 1..m when the file ends there or goes on with a larger
\* mark (a gap); it is 0 when the line after them is malformed, not a
\* number, repeats the previous mark or has a smaller one, and 0 for a
\* missing file.
C20_LastValidMarkResult ==
    result.op = "lastValidMark"
        => LET lines == R1.marksfile.lines
               k == contiguous(lines)
           IN IF ~R1.marksfile.exists THEN result.ret = 0
              ELSE IF k = Len(lines) THEN result.ret = k
              ELSE IF gapAfter(lines[k + 1], k) THEN result.ret = k
              ELSE result.ret = 0

\* lastValidMark has read the marks 1, 2 and then 1 again, below the
\* previous mark, and returned 0
C20_Witness ==
    /\ result.op = "lastValidMark" /\ result.ret = 0
    /\ R1.marksfile.lines = <<MarkLine(1), MarkLine(2), MarkLine(1)>>

(***************************************************************************)
(* SpecMarkFrom: markFrom on the branch histories a log can leave: commits *)
(* and deletions of b1 at any revisions, in any order.                     *)
(***************************************************************************)
\* Lines of the log, and calls made, in a run of SpecMarkFrom.
MaxMarkFromLog == 3
MaxMarkFromCalls == 2

\* the revisions of the log lines; markFrom is asked for one more
HistoryRevs == 1..3

\* line i of a log: a commit on b1 with mark i, or a deletion of b1
HistoryLine(i, rev, deleted) ==
    IF deleted THEN ProgressLine(rev, "b1", 0, " # delete")
    ELSE ProgressLine(rev, "b1", i, "")

HistoryFiles ==
    {FreshFiles} \cup
    {[logfile |-> File([i \in DOMAIN f |-> HistoryLine(i, f[i][1], f[i][2])]),
      bkup |-> NoFile, marksfile |-> MarksUpTo(Len(f))] :
        f \in UNION {[1..n -> HistoryRevs \X BOOLEAN] :
                        n \in 1..MaxMarkFromLog}}

InitMarkFrom ==
    InitWith({1}, HistoryFiles, {FALSE}, {FALSE}, MaxMarkFromCalls)

\* markFrom(branchFrom, branchRevNum, desc) on repository r
MarkFrom(r, branchFrom, branchRevNum) ==
    /\ Ready(r)
    /\ Becomes(Returns(World, "markFrom",
                       markFrom(repos[r].branches, branchFrom, branchRevNum),
                       0))
    /\ UNCHANGED phase

NextMarkFrom ==
    \/ SetupIncremental(1, INT_MAX)
    \/ \E from \in BranchNames, rev \in HistoryRevs \cup {4} :
          MarkFrom(1, from, rev)

SpecMarkFrom == InitMarkFrom /\ [][NextMarkFrom]_vars

\* the positions of the entries of br at or below revision r
entriesUpTo(br, r) == {i \in 1..Len(br.commits) : br.commits[i] <= r}

C21_Step ==
    \A from \in BranchNames, r \in HistoryRevs \cup {4} :
       LET br == R1.branches[from]
           upTo == entriesUpTo(br, r)
           last == CHOOSE i \in upTo : \A j \in upTo : j <= i
       IN result'.op = "markFrom" /\ MarkFrom(1, from, r)
          => /\ repos' = repos
             /\ br.created = 0 \/ br.commits = <<>> => result'.ret = -1
             /\ br.created # 0 /\ br.commits # <<>> /\ nonDecreasing(br.commits)
                   => result'.ret = IF upTo = {} THEN 0 ELSE br.marks[last]

\* C21: for a branch with created # 0 and a non-empty, non-decreasing
\* commits vector markFrom(branch, r) returns the mark of the last entry
\* whose revnum is <= r (0 for a deletion) and 0 when every entry is above
\* r; it returns -1 for a branch that is unknown, has created = 0 or has no
\* entries; it changes no branch.
C21_MarkFromResult == [][C21_Step]_vars

\* b1 was committed at revision 1 and deleted at revision 2; markFrom has
\* returned the 0 of the deletion
C21_Witness ==
    /\ result.op = "markFrom" /\ result.ret = 0
    /\ R1.branches["b1"].commits = <<1, 2, 3>>
    /\ R1.branches["b1"].marks = <<1, 0, 3>>
    /\ callsLeft = MaxMarkFromCalls - 2

\* a createBranch or deleteBranch of branch b at revision rev has gone
\* through resetBranch
ResetStep(b, rev) ==
    /\ ~fatal' /\ result'.ret = EXIT_SUCCESS
    /\ repos'[1].branches[b].created = rev
    /\ \/ result'.op = "deleteBranch" /\ DeleteBranch(1, b, rev)
       \/ /\ result'.op = "createBranch"
          /\ \E from \in BranchNames, revFrom \in BranchRevs :
                CreateBranch(1, b, rev, from, revFrom)

\* a reset of a ref under refs/backups
BackupRefs ==
    UNION {{"refs/backups/r" \o ToString(rev) \o "/" \o b,
            "refs/backups/r" \o ToString(rev) \o "/heads/" \o b} :
              b \in BranchNames, rev \in BranchRevs}

isBackup(line) == line.k = "reset" /\ line.ref \in BackupRefs

\* the lines written by the step are: no backup reset when ~backedUp, and
\* when backedUp the one reset of backupRef from refs/heads/b, just before
\* the reset of refs/heads/b that ends the step with its progress line
backupWritten(b, backupRef, backedUp) ==
    LET n == Len(Written)
    IN /\ n >= 2
       /\ Written[n - 1].k = "reset" /\ Written[n - 1].ref = branchRefOf(b)
       /\ Written[n].k = "progress"
       /\ IF backedUp
          THEN /\ n >= 3
               /\ Written[n - 2] = ResetLine(backupRef, branchRefOf(b))
               /\ \A i \in 1..n : isBackup(Written[i]) => i = n - 2
          ELSE \A i \in 1..n : ~isBackup(Written[i])

\* C22 as stated: the backup reset "reset refs/backups/r<r>/<B>", "from
\* refs/heads/<B>" is emitted immediately before the main reset exactly when
\* B was created at a revnum other than r and its history holds any
\* non-zero mark.
C22_BackupIfAnyRealMark ==
    [][\A b \in BranchNames, rev \in BranchRevs :
          ResetStep(b, rev)
          => LET br == R1.branches[b]
             IN backupWritten(b, "refs/backups/r" \o ToString(rev) \o "/" \o b,
                              /\ br.created # 0 /\ br.created # rev
                              /\ \E i \in 1..Len(br.marks) : br.marks[i] # 0)]_vars

\* C22, amended: the backup reset is "reset refs/backups/r<r>/heads/<B>",
\* "from refs/heads/<B>", and it is emitted, immediately before the main
\* reset, exactly when B was created at a revnum other than r and the LAST
\* mark of its history is not 0: a branch that was deleted last is not
\* backed up, whatever marks it held before.  With created # 0, created # r
\* and no entry at all, the last mark read is not defined and the backup may
\* or may not be emitted.
C22_BackupIfLastMarkReal ==
    [][\A b \in BranchNames, rev \in BranchRevs :
          ResetStep(b, rev)
          => LET br == R1.branches[b]
                 differs == br.created # 0 /\ br.created # rev
                 backupRef == "refs/backups/r" \o ToString(rev) \o mid4(b)
             IN IF differs /\ br.marks = <<>>
                THEN \/ backupWritten(b, backupRef, TRUE)
                     \/ backupWritten(b, backupRef, FALSE)
                ELSE backupWritten(b, backupRef,
                                   differs /\ Last(br.marks) # 0)]_vars

\* b1, created at revision 2 with mark 1, was deleted at revision 1, which
\* backed it up, and is created again at revision 2: it holds the mark 1
\* but its last mark is 0, and the call wrote no backup
C22_Witness ==
    /\ result.op = "createBranch" /\ result.ret = EXIT_SUCCESS /\ ~fatal
    /\ R1.branches["b1"].commits = <<2, 1, 2>>
    /\ R1.branches["b1"].marks = <<1, 0, 1>>
    /\ \E i \in 1..Len(Out1) :
          /\ Out1[i] = ResetLine("refs/backups/r1/heads/b1", "refs/heads/b1")
          /\ \A j \in (i + 1)..Len(Out1) : ~isBackup(Out1[j])

(***************************************************************************)
(* SpecCache: the process cache over three repositories with room for two  *)
(* importers.  Transaction 1 works on repository 1 and transaction 2 on    *)
(* the others; commits touch the cache, and repositories are destroyed.    *)
(***************************************************************************)
\* Calls made in a run of SpecCache.
MaxCacheCalls == 17

\* FastImportRepository::~FastImportRepository
destroy(w, r) ==
    IF w.repos[r].outstandingTransactions # 0
    THEN Abort(w, "destroy", r)      \* Q_ASSERT(outstandingTransactions == 0)
    ELSE Returns(closeFastImport(w, r), "destroy", r, 0)

\* delete repository r
Destroy(r) ==
    /\ Ready(r)
    /\ Becomes(destroy(World, r))
    /\ phase' = [phase EXCEPT ![r] = "destroyed"]

InitCache == InitWith(Repos, {FreshFiles}, {FALSE}, {FALSE}, MaxCacheCalls)

NextCache ==
    \/ SetupAll
    \/ NewTransaction(1, 1, "master", 1)
    \/ \E r \in Repos \ {1} : NewTransaction(r, 2, "master", 1)
    \/ AddFile(1, <<"f">>, 33188, 5)
    \/ \E t \in TxnIds : Commit(t)
    \/ \E t \in TxnIds : DeleteTransaction(t)
    \/ \E r \in Repos : Destroy(r)

SpecCache == InitCache /\ [][NextCache]_vars

\* the repositories the step has taken out of the cache
evicted == {e \in Repos : contains(processCache, e) /\ ~contains(processCache', e)}

\* the shape of the cache after the step
C23_Shape ==
    LET old == processCache
        new == processCache'
    IN /\ \A i, j \in 1..Len(new) : new[i] = new[j] => i = j
       /\ Len(new) <= maxSimultaneousProcesses
       /\ \A t \in TxnIds :
             CommitStep(t)
             => LET r == txns[t].repository
                    rest == removeOne(old, r)
                    k == Len(rest) - (Len(new) - 1)
                IN /\ new # <<>> /\ Last(new) = r
                   /\ k >= 0
                   /\ new = SubSeq(rest, k + 1, Len(rest)) \o <<r>>
                   /\ evicted = {rest[i] : i \in 1..k}
       /\ \A e \in evicted :
             /\ ~repos'[e].running /\ ~repos'[e].processHasStarted
             /\ repos[e].running
                   => repos'[e].out = Append(repos[e].out, CheckpointLine)
             /\ ~repos[e].running => repos'[e].out = repos[e].out

\* the importer of every repository a touch has taken out of the cache was
\* running and got "checkpoint" as its last line
C23_Checkpointed ==
    \A e \in evicted :
       (\E t \in TxnIds : CommitStep(t))
       => /\ repos[e].running
          /\ repos'[e].out = Append(repos[e].out, CheckpointLine)
          /\ repos'[e].dropped = repos[e].dropped

\* C23: the cache holds no repository twice and at most
\* maxSimultaneousProcesses entries, the repository touched last is at its
\* tail, an entry removed by a touch is the head of the cache and is removed
\* by closeFastImport, which writes "checkpoint" before it closes the stdin
\* of that importer.
C23_CacheShape == [][C23_Shape /\ C23_Checkpointed]_vars

\* the step is an addFile or a commit() of transaction t
WritingStep(t) ==
    \/ CommitStep(t)
    \/ /\ result'.op = "addFile" /\ txns[t].status = "open"
       /\ txns'[t].modifiedFiles # txns[t].modifiedFiles

C24_Written ==
    \A t \in TxnIds : WritingStep(t) => repos[txns[t].repository].running

C24_Evicted ==
    \A e \in evicted :
       (\E t \in TxnIds : CommitStep(t) /\ txns[t].repository # e)
       => repos[e].outstandingTransactions = 0

\* C24: whenever addFile or commit() of a transaction writes protocol bytes,
\* the importer of its repository is running, and a repository with an
\* outstanding transaction is never closed by the eviction that the commit()
\* of another repository triggers.
C24_NoWriteToClosedImporter == [][C24_Written /\ C24_Evicted]_vars

\* a createBranch or deleteBranch of branch b at revision rev that gets to
\* the test "br.created && br.created != revnum && br.marks.last()" of
\* resetBranch and evaluates its third operand
ReadsLastMark(b, rev) ==
    /\ R1.branches[b].created # 0 /\ R1.branches[b].created # rev
    /\ \/ DeleteBranch(1, b, rev)
       \/ \E from \in BranchNames, revFrom \in BranchRevs :
             /\ markFrom(R1.branches, from, revFrom) # -1
             /\ CreateBranch(1, b, rev, from, revFrom)

\* C25: whenever resetBranch, markFrom, commit() or reloadBranches reads the
\* last element of a branch's marks, the vector is not empty, also for a
\* createBranch or deleteBranch of a branch with created # 0 and no entries
\* at a revnum other than created.  markFrom reads it for a branch with
\* commits, commit() and reloadBranches only after testing the vector.
C25_NoReadOfEmptyHistory ==
    [][/\ \A b \in BranchNames, rev \in BranchRevs :
             ReadsLastMark(b, rev) => R1.branches[b].marks # <<>>
       /\ \A b \in BranchNames :
             R1.branches[b].commits # <<>> => R1.branches[b].marks # <<>>]_vars

=============================================================================
